---- MODULE Spec2Model ----
(***************************************************************************)
(* Model of the AI-Judge evaluation pipeline: the run-evaluations edge     *)
(* function (index.ts), the per-assignment orchestrator (evaluate.ts), the *)
(* database helpers (database.ts), the OpenAI caller (openAI.ts) and the   *)
(* assignment operations of the front end (judgeManagementService.ts).     *)
(***************************************************************************)
EXTENDS Integers, Sequences, FiniteSets, TLC

(***************************************************************************)
(* Bounds of the model.                                                    *)
(***************************************************************************)
\* At most MaxRowsPerPair evaluation rows can be stored for one (question, judge)
\* pair; the unique constraint of the schema allows one.
MaxRowsPerPair == 2

(***************************************************************************)
(* Values shared by the definitions below.                                 *)
(***************************************************************************)
\* JavaScript undefined / SQL NULL / "no value yet" markers (strings, so that
\* they can share a field with ordinary strings).
UNDEF == "<undefined>"
NULL == "<null>"
None == [kind |-> "none"]

Verdicts == {"pass", "fail", "inconclusive"}

(***************************************************************************)
(* Rows of the tables that the pipeline only reads (schema.sql).           *)
(***************************************************************************)
Users == {"u1", "u2"}

\* w1 holds a submission with a question, w2 a submission without questions,
\* w0 no submission at all.
Workspaces == {"w0", "w1", "w2"}

Submissions == {"s1", "s2"}

SubmissionWorkspace == [s1 |-> "w1", s2 |-> "w2"]

Questions == {"q1"}

QuestionSubmission == [q1 |-> "s1"]

\* question_text, as a sequence of characters: of q1, and of the questions
\* q2, q3 and q4 that further imports add.
QuestionText ==
  [q1 |-> <<" ", "S", "u", "m", "?">>,
   q2 |-> <<"s", "u", "m", "?", " ">>,
   q3 |-> <<"s", "u", "m">>,
   q4 |-> <<"S", "U", "M", "?">>]

\* answers table: question_id -> answer_json (q1 has an answer)
Answers == [q1 |-> "{\"choice\":\"B\"}"]

\* The answers table, with and without the answer row of q1.
AnswerTables == {Answers, <<>>}

Judges == {"j1", "j2", "j3"}

JudgeOwner == [j1 |-> "u1", j2 |-> "u1", j3 |-> "u2"]

\* judges.model, as a sequence of characters
JudgeModel ==
  [j1 |-> <<"g", "p", "t", "-", "4">>,
   j2 |-> <<"G", "P", "T", "-", "5", "-", "M", "i", "n", "i">>,
   j3 |-> <<"g", "p", "t", "-", "4">>]

\* judges.model as the text that appears in messages
JudgeModelName == [j1 |-> "gpt-4", j2 |-> "GPT-5-Mini", j3 |-> "gpt-4"]

\* judges.system_prompt
JudgeSystemPrompt == [j1 |-> "Be strict.", j2 |-> "Be lenient.", j3 |-> "Be brief."]

(***************************************************************************)
(* String functions of the JavaScript runtime, on sequences of characters. *)
(***************************************************************************)
UpperCase == <<"A", "B", "C", "D", "E", "F", "G", "H", "I", "J", "K", "L", "M",
               "N", "O", "P", "Q", "R", "S", "T", "U", "V", "W", "X", "Y", "Z">>

LowerCase == <<"a", "b", "c", "d", "e", "f", "g", "h", "i", "j", "k", "l", "m",
               "n", "o", "p", "q", "r", "s", "t", "u", "v", "w", "x", "y", "z">>

ToLowerChar(c) ==
  IF \E i \in 1..26 : UpperCase[i] = c
    THEN LowerCase[CHOOSE i \in 1..26 : UpperCase[i] = c]
    ELSE c

\* String.prototype.toLowerCase
ToLowerCase(s) == [i \in 1..Len(s) |-> ToLowerChar(s[i])]

\* String.prototype.includes
Includes(s, sub) ==
  \E i \in 1..(Len(s) - Len(sub) + 1) : SubSeq(s, i, i + Len(sub) - 1) = sub

RECURSIVE TrimStart(_)
TrimStart(s) ==
  IF s # <<>> /\ Head(s) = " " THEN TrimStart(Tail(s)) ELSE s

RECURSIVE TrimEnd(_)
TrimEnd(s) ==
  IF s # <<>> /\ s[Len(s)] = " " THEN TrimEnd(SubSeq(s, 1, Len(s) - 1)) ELSE s

\* String.prototype.trim
Trim(s) == TrimEnd(TrimStart(s))

(***************************************************************************)
(* JSON values, wrapped in records so that values of different JavaScript  *)
(* types can be compared.                                                  *)
(***************************************************************************)
JUndefined == [t |-> "undefined"]
JNull == [t |-> "null"]
JNum(n) == [t |-> "number", n |-> n]
JStr(s) == [s |-> s, t |-> "string"]
JArr == [t |-> "array"]
JObj(v, r) == [t |-> "object", verdict |-> v, reasoning |-> r]
SyntaxError == [t |-> "SyntaxError"]

\* Content strings a model may return.
C_NOT_JSON == "Sure! The verdict is pass."
C_NULL == "null"
C_NUMBER == "42"
C_ARRAY == "[]"
C_EMPTY_OBJECT == "{}"
C_PASS == "{\"verdict\":\"pass\",\"reasoning\":\"ok\"}"
C_FAIL_NO_REASONING == "{\"verdict\":\"fail\"}"
C_INCONCLUSIVE == "{\"verdict\":\"inconclusive\",\"reasoning\":\"ok\"}"
C_UPPERCASE == "{\"verdict\":\"PASS\",\"reasoning\":\"ok\"}"
C_NUMERIC == "{\"verdict\":1,\"reasoning\":0}"
C_NULL_REASONING == "{\"verdict\":\"pass\",\"reasoning\":null}"

Contents ==
  {C_NOT_JSON, C_NULL, C_NUMBER, C_ARRAY, C_EMPTY_OBJECT, C_PASS,
   C_FAIL_NO_REASONING, C_INCONCLUSIVE, C_UPPERCASE, C_NUMERIC, C_NULL_REASONING}

\* JSON.parse on the content strings above: the parsed value, or SyntaxError.
JSONParse(content) ==
  CASE content = C_NULL -> JNull
    [] content = C_NUMBER -> JNum(42)
    [] content = C_ARRAY -> JArr
    [] content = C_EMPTY_OBJECT -> JObj(JUndefined, JUndefined)
    [] content = C_PASS -> JObj(JStr("pass"), JStr("ok"))
    [] content = C_FAIL_NO_REASONING -> JObj(JStr("fail"), JUndefined)
    [] content = C_INCONCLUSIVE -> JObj(JStr("inconclusive"), JStr("ok"))
    [] content = C_UPPERCASE -> JObj(JStr("PASS"), JStr("ok"))
    [] content = C_NUMERIC -> JObj(JNum(1), JNum(0))
    [] content = C_NULL_REASONING -> JObj(JStr("pass"), JNull)
    [] OTHER -> SyntaxError

\* Property access parsed.<name>: a TypeError on null, undefined on a value
\* without the property.
TypeError == [t |-> "TypeError"]

GetVerdict(parsed) ==
  CASE parsed.t = "null" -> TypeError
    [] parsed.t = "object" -> parsed.verdict
    [] OTHER -> JUndefined

GetReasoning(parsed) ==
  CASE parsed.t = "null" -> TypeError
    [] parsed.t = "object" -> parsed.reasoning
    [] OTHER -> JUndefined

\* JavaScript truthiness of a JSON value.
Truthy(v) ==
  CASE v.t = "undefined" -> FALSE
    [] v.t = "null" -> FALSE
    [] v.t = "number" -> v.n # 0
    [] v.t = "string" -> v.s # ""
    [] OTHER -> TRUE

(***************************************************************************)
(* Response Validator (openAI.ts, end of callOpenAI and validateVerdict).  *)
(***************************************************************************)
\* validateVerdict with the bug "return the value as it is"
validateVerdictUnchecked(verdict) ==
  IF verdict.t = "string" THEN verdict.s ELSE "inconclusive"

validateVerdict(verdict) ==
  IF verdict.t = "string" /\ verdict.s \in Verdicts
    THEN verdict.s
    ELSE "inconclusive"

FAILED_TO_PARSE == "Failed to parse LLM response as JSON"

\* parsed.reasoning || ''
ReasoningOrEmpty(r) ==
  IF Truthy(r)
    THEN (IF r.t = "string" THEN r.s ELSE "<non-string value>")
    ELSE ""

\* The try/catch around JSON.parse(content): a SyntaxError of JSON.parse and a
\* TypeError of the property access both end in the catch clause.
ParseContent(content) ==
  LET parsed == JSONParse(content) IN
    IF parsed = SyntaxError \/ GetVerdict(parsed) = TypeError
      THEN [verdict |-> "inconclusive", reasoning |-> FAILED_TO_PARSE]
      ELSE [verdict |-> validateVerdict(GetVerdict(parsed)),
            reasoning |-> ReasoningOrEmpty(GetReasoning(parsed))]

(***************************************************************************)
(* Provider responses (the inputs of callOpenAI).                          *)
(***************************************************************************)
\* Bodies of non-success responses.
E_TEMP_CODE ==
  "{\"error\":{\"message\":\"Unsupported value\",\"param\":\"temperature\",\"code\":\"unsupported_value\"}}"
E_TEMP_MESSAGE == "{\"error\":{\"message\":\"temperature does not support 0\"}}"
E_TEMP_TEXT == "temperature does not support 0 with this model"
E_MODEL_NOT_FOUND == "{\"error\":{\"message\":\"No such model\",\"code\":\"model_not_found\"}}"
E_DOES_NOT_EXIST ==
  "{\"error\":{\"message\":\"The model does not exist\",\"code\":\"invalid_request_error\"}}"
E_RATE_LIMIT == "{\"error\":{\"message\":\"Rate limit reached\",\"code\":\"rate_limit_exceeded\"}}"
E_BAD_GATEWAY == "Bad Gateway"
E_BRACE == "upstream {reset"
E_NO_ERROR_FIELD == "{}"

ErrorTexts ==
  {E_TEMP_CODE, E_TEMP_MESSAGE, E_TEMP_TEXT, E_MODEL_NOT_FOUND, E_DOES_NOT_EXIST,
   E_RATE_LIMIT, E_BAD_GATEWAY, E_BRACE, E_NO_ERROR_FIELD}

\* JSON.parse(errorText) followed by the reads of .error?.code, .error?.param
\* and .error?.message; threw is the SyntaxError of JSON.parse.
ParseErrorText(errorText) ==
  CASE errorText = E_TEMP_CODE ->
         [threw |-> FALSE, code |-> "unsupported_value", param |-> "temperature",
          message |-> "Unsupported value"]
    [] errorText = E_TEMP_MESSAGE ->
         [threw |-> FALSE, code |-> UNDEF, param |-> UNDEF,
          message |-> "temperature does not support 0"]
    [] errorText = E_MODEL_NOT_FOUND ->
         [threw |-> FALSE, code |-> "model_not_found", param |-> UNDEF,
          message |-> "No such model"]
    [] errorText = E_DOES_NOT_EXIST ->
         [threw |-> FALSE, code |-> "invalid_request_error", param |-> UNDEF,
          message |-> "The model does not exist"]
    [] errorText = E_RATE_LIMIT ->
         [threw |-> FALSE, code |-> "rate_limit_exceeded", param |-> UNDEF,
          message |-> "Rate limit reached"]
    [] errorText = E_NO_ERROR_FIELD ->
         [threw |-> FALSE, code |-> UNDEF, param |-> UNDEF, message |-> UNDEF]
    [] OTHER ->
         [threw |-> TRUE, code |-> UNDEF, param |-> UNDEF, message |-> UNDEF]

\* String.prototype.includes on the texts and messages above.
TextIncludes(text, needle) ==
  CASE needle = "temperature" ->
         text \in {E_TEMP_CODE, E_TEMP_MESSAGE, E_TEMP_TEXT,
                   "temperature does not support 0"}
    [] needle = "does not support" ->
         text \in {E_TEMP_MESSAGE, E_TEMP_TEXT, "temperature does not support 0"}
    [] needle = "does not exist" ->
         text \in {E_DOES_NOT_EXIST, "The model does not exist"}
    [] needle = "{" ->
         text \in {E_TEMP_CODE, E_TEMP_MESSAGE, E_MODEL_NOT_FOUND, E_DOES_NOT_EXIST,
                   E_RATE_LIMIT, E_BRACE, E_NO_ERROR_FIELD}
    [] OTHER -> FALSE

\* The body of a success response, as response.json() delivers it: valid is
\* FALSE for a body that is not JSON, hasChoices is FALSE for a body without
\* a choices array, content is choices[0]?.message?.content.
Data(valid, hasChoices, content) ==
  [content |-> content, valid |-> valid, hasChoices |-> hasChoices]

NoData == Data(FALSE, FALSE, UNDEF)

OkResponse(data) == [errorText |-> "", data |-> data, ok |-> TRUE, status |-> 200]

ErrorResponse(status, errorText) ==
  [errorText |-> errorText, data |-> NoData, ok |-> FALSE, status |-> status]

\* Every provider response the model caller is exercised with.
Responses ==
  {OkResponse(Data(TRUE, TRUE, c)) : c \in Contents \cup {UNDEF, ""}}
    \cup {OkResponse(Data(TRUE, FALSE, UNDEF)), OkResponse(Data(FALSE, FALSE, UNDEF))}
    \cup {ErrorResponse(400, t) : t \in {E_TEMP_CODE, E_TEMP_MESSAGE, E_TEMP_TEXT}}
    \cup {ErrorResponse(404, t) : t \in {E_MODEL_NOT_FOUND, E_DOES_NOT_EXIST}}
    \cup {ErrorResponse(429, E_RATE_LIMIT)}
    \cup {ErrorResponse(502, t) : t \in {E_BAD_GATEWAY, E_BRACE, E_NO_ERROR_FIELD}}

\* The provider responses used when whole batch runs are explored.
BatchResponses ==
  {OkResponse(Data(TRUE, TRUE, C_PASS)), OkResponse(Data(TRUE, TRUE, C_FAIL_NO_REASONING)),
   OkResponse(Data(TRUE, TRUE, C_NOT_JSON)), ErrorResponse(429, E_RATE_LIMIT)}

(***************************************************************************)
(* Thrown values: isError is "value instanceof Error".                     *)
(***************************************************************************)
Thrown(isError, message) == [kind |-> "throw", message |-> message, isError |-> isError]

Returned(result) ==
  [kind |-> "return", verdict |-> result.verdict, reasoning |-> result.reasoning]

\* fetch() rejecting for a network failure
NetworkError == Thrown(TRUE, "fetch failed")

\* response.text() / response.json() rejecting while the body is read
BodyError == Thrown(TRUE, "error reading a body from connection")

\* JSON.parse or response.json() on a text that is not JSON
JsonSyntaxError == Thrown(TRUE, "Unexpected token in JSON")

\* data.choices[0] on a body without choices
ChoicesTypeError == Thrown(TRUE, "Cannot read properties of undefined (reading '0')")

\* The error of a failed Supabase call: the { error } object of the client (not
\* an Error instance), or an exception thrown by the client itself.
DbErrors == {Thrown(FALSE, "connection refused"), Thrown(TRUE, "fetch failed")}

\* the message expression with the bug "the message is dropped"
ErrorMessageUnknown(error) == "Unknown error"

\* error instanceof Error ? error.message : 'Unknown error'
ErrorMessage(error) == IF error.isError THEN error.message ELSE "Unknown error"

(***************************************************************************)
(* Model Caller: the synchronous parts of callOpenAI (openAI.ts).          *)
(***************************************************************************)
modelsWithoutTemperature ==
  {<<"g", "p", "t", "-", "5", "-", "m", "i", "n", "i">>,
   <<"g", "p", "t", "-", "5", ".", "1", "-", "m", "i", "n", "i">>,
   <<"g", "p", "t", "-", "5", " ", "m", "i", "n", "i">>,
   <<"g", "p", "t", "-", "5", ".", "1", " ", "m", "i", "n", "i">>}

\* supportsTemperature with the bug "the model is not lower-cased"
supportsTemperatureCaseSensitive(model) ==
  ~ \E m \in modelsWithoutTemperature : Includes(model, ToLowerCase(m))

supportsTemperature(model) ==
  ~ \E m \in modelsWithoutTemperature :
      Includes(ToLowerCase(model), ToLowerCase(m))

\* The request body that makeRequest sends, as far as it varies.
\* JSON.stringify(answerJson, null, 2): the indented text of a value, the text
\* null for null, and undefined (no text at all) for undefined.
JSONStringify(value) ==
  CASE value = UNDEF -> UNDEF
    [] value = NULL -> "null"
    [] value = "{\"choice\":\"B\"}" -> "{\n  \"choice\": \"B\"\n}"
    [] OTHER -> value

\* ${value} in a template literal: String(value)
TemplateText(value) == IF value = UNDEF THEN "undefined" ELSE value

\* buildTypeSpecificPrompt: the part of the user prompt that holds the answer
\* (the question text and the instructions do not depend on the answer).
buildTypeSpecificPrompt(answerJson) ==
  "Answer JSON:\n" \o TemplateText(JSONStringify(answerJson))

\* The body of makeRequest; temperature is TRUE iff the body has the field
\* temperature, whose value is then 0.
RequestBody(judge, userPrompt, includeTemperature) ==
  [model |-> JudgeModelName[judge],
   messages |-> <<[content |-> JudgeSystemPrompt[judge], role |-> "system"],
                  [content |-> userPrompt, role |-> "user"]>>,
   response_format |-> [type |-> "json_object"],
   temperature |-> includeTemperature]

\* shouldRetry with the bug "never retry"
shouldRetryNever(errorText) == FALSE

\* shouldRetry, as computed from the text of the first non-success response
shouldRetry(errorText) ==
  LET errorData == ParseErrorText(errorText) IN
    IF errorData.threw
      THEN TextIncludes(errorText, "temperature")
             /\ TextIncludes(errorText, "does not support")
      ELSE \/ errorData.code = "unsupported_value" /\ errorData.param = "temperature"
           \/ /\ errorData.message \notin {UNDEF, ""}
              /\ TextIncludes(errorData.message, "temperature")
              /\ TextIncludes(errorData.message, "does not support")

TimeoutError(judge) ==
  Thrown(TRUE, "OpenAI API request timeout for model " \o JudgeModelName[judge]
                 \o ". The request took longer than 2 minutes.")

ModelNotAvailable(judge) ==
  "Model \"" \o JudgeModelName[judge]
    \o "\" is not available. Please update your judge to use a different model (e.g., gpt-3.5-turbo)."

\* The error thrown for a first response that is not ok and is not retried.
FirstResponseError(resp) ==
  LET errorData == ParseErrorText(resp.errorText) IN
    IF TextIncludes(resp.errorText, "{")
      THEN IF errorData.threw
             THEN JsonSyntaxError
             ELSE Thrown(TRUE, "OpenAI API error: " \o ToString(resp.status) \o " "
                                 \o (IF errorData.message \notin {UNDEF, ""}
                                       THEN errorData.message
                                       ELSE resp.errorText))
      ELSE Thrown(TRUE, "OpenAI API error: " \o ToString(resp.status) \o " "
                          \o resp.errorText)

\* The error thrown for a response to the retry that is not ok.
RetryResponseError(resp, judge) ==
  LET errorData == ParseErrorText(resp.errorText) IN
    IF errorData.threw
      THEN Thrown(TRUE, "OpenAI API error: " \o ToString(resp.status) \o " "
                          \o resp.errorText)
      ELSE IF errorData.message \notin {UNDEF, ""}
             THEN IF \/ errorData.code = "model_not_found"
                     \/ TextIncludes(errorData.message, "does not exist")
                    THEN Thrown(TRUE, ModelNotAvailable(judge))
                    ELSE Thrown(TRUE, "OpenAI API error: " \o errorData.message)
             ELSE Thrown(TRUE, "OpenAI API error: " \o ToString(resp.status))

\* From the body of a success response to the value callOpenAI returns or throws.
ContentOutcome(data) ==
  IF ~data.valid THEN JsonSyntaxError
  ELSE IF ~data.hasChoices THEN ChoicesTypeError
  ELSE IF data.content \in {UNDEF, ""} THEN Thrown(TRUE, "No content in OpenAI response")
  ELSE Returned(ParseContent(data.content))

(***************************************************************************)
(* Database operations (database.ts, schema.sql).                          *)
(***************************************************************************)
EvaluationRow(id, submissionId, questionId, judgeId, verdict, reasoning) ==
  [verdict |-> verdict, reasoning |-> reasoning, id |-> id,
   submission_id |-> submissionId, question_id |-> questionId, judge_id |-> judgeId]

\* Row ids are <<question_id, judge_id, n>>: the n-th row stored for the pair.
UnusedIds(evals, questionId, judgeId) ==
  {id \in {<<questionId, judgeId, n>> : n \in 1..MaxRowsPerPair} :
     \A e \in evals : e.id # id}

\* gen_random_uuid(): an id that no row uses
FreshId(evals, questionId, judgeId) ==
  CHOOSE id \in UnusedIds(evals, questionId, judgeId) :
    \A other \in UnusedIds(evals, questionId, judgeId) : id[3] <= other[3]

\* upsert with the bug "plain insert"
UpsertInsertOnly(evals, submissionId, questionId, judgeId, verdict, reasoning) ==
  evals \cup {EvaluationRow(FreshId(evals, questionId, judgeId), submissionId, questionId, judgeId,
                            verdict, reasoning)}

\* upsert(..., { onConflict: 'question_id,judge_id' }) on evaluations
Upsert(evals, submissionId, questionId, judgeId, verdict, reasoning) ==
  IF \E e \in evals : e.question_id = questionId /\ e.judge_id = judgeId
    THEN {IF e.question_id = questionId /\ e.judge_id = judgeId
            THEN EvaluationRow(e.id, submissionId, questionId, judgeId, verdict, reasoning)
            ELSE e : e \in evals}
    ELSE evals \cup {EvaluationRow(FreshId(evals, questionId, judgeId), submissionId, questionId, judgeId,
                                   verdict, reasoning)}

\* `${question_id}:${judge_id}`
PairKey(questionId, judgeId) == questionId \o ":" \o judgeId

\* deleteOldEvaluations with the bug "the select has no filter on question_id"
EvaluationsToDeleteOfAnyQuestion(evals, questionIds, currentAssignments) ==
  LET validPairs ==
        {PairKey(currentAssignments[i].question_id, currentAssignments[i].judge_id) :
           i \in 1..Len(currentAssignments)}
  IN {e.id : e \in {x \in evals : PairKey(x.question_id, x.judge_id) \notin validPairs}}

\* The ids that deleteOldEvaluations selects for deletion. The handler calls it
\* with the questions step 2 found, which are never none.
EvaluationsToDelete(evals, questionIds, currentAssignments) ==
  LET validPairs ==
        {PairKey(currentAssignments[i].question_id, currentAssignments[i].judge_id) :
           i \in 1..Len(currentAssignments)}
      existingEvaluations == {e \in evals : e.question_id \in questionIds}
  IN {e.id : e \in {x \in existingEvaluations :
                      PairKey(x.question_id, x.judge_id) \notin validPairs}}


\* All orders in which a select without ORDER BY may deliver a set of rows.
Orderings(S) ==
  {f \in [1..Cardinality(S) -> S] : \A i, j \in 1..Cardinality(S) : i # j => f[i] # f[j]}

Assignment(judgeId, questionId) == [question_id |-> questionId, judge_id |-> judgeId]

(***************************************************************************)
(* State.                                                                  *)
(***************************************************************************)
VARIABLES
  judge_assignments,  \* table judge_assignments: a set of (judge_id, question_id)
  evaluations,        \* table evaluations: a set of rows
  OPENAI_SECRET_KEY,  \* TRUE iff the provider credential is configured
  answers,            \* table answers: question_id -> answer_json (only read)
  workspaces,         \* table workspaces: rows [id, user_id, temporary]
  submissions,        \* table submissions: rows [id, workspace_id]
  questions,          \* table questions: rows [id, submission_id]
  judgeRows,          \* table judges: rows [id, user_id]
  workspace_judge_selections,  \* table: rows [workspace_id, judge_id]
  pending,            \* a front-end operation between its ownership check and its write
  listed,             \* what the last getAllUserWorkspaces returned, or None
  runs,               \* concurrent invocations of the handler: name -> locals
  tabs,               \* browser tabs showing the workflow: name -> component state
  upload,             \* the upload into an existing workspace: locals of processJsonData
  assignStep,         \* the AssignStep page: its state and its handler calls in flight
  pc,                 \* where the handler (or the model caller) is suspended
  request,            \* body of the trigger request being served, or None
  submissionIds,      \* handler local
  questionIds,        \* handler local (ids of questions)
  answerMap,          \* handler local
  assignments,        \* handler local: sequence of assignments
  judges,             \* handler local: ids of the judges fetched for the user
  idsToDelete,        \* local of deleteOldEvaluations
  processedCount,     \* handler local
  results,            \* handler local: sequence of EvaluationResult
  httpResponse,       \* the response the handler returned, or None
  callJudge,          \* the judge whose prompt and model callOpenAI was given
  requests,           \* the requests sent by the current callOpenAI invocation
  timerArmed,         \* TRUE iff the abort timer of makeRequest is pending
  response,           \* the provider response held by callOpenAI, or None
  content,            \* the content string of the last success response
  callOutcome,        \* what callOpenAI returned or threw, or None
  evalError,          \* the error caught by evaluateAssignment, or None
  evalOutcome,        \* what the last evaluateAssignment returned or threw, or None
  conflict            \* TRUE iff the last successful upsert took the ON CONFLICT path

dbVars == <<judge_assignments, evaluations>>

\* The tables and results of the workspace, import and judge services.
storeVars ==
  <<workspaces, submissions, questions, judgeRows, workspace_judge_selections,
    pending, listed>>

\* What a run finds and never changes: the credential, the answers table and
\* the tables that the front end maintains.
\* The state of the clients and invocations that run next to the handler.
\* The state of the pages of the front end.
uiVars == <<tabs, upload, assignStep>>

clientVars == <<runs, uiVars>>

envVars == <<OPENAI_SECRET_KEY, answers, storeVars, clientVars>>

runVars ==
  <<request, submissionIds, questionIds, answerMap, assignments, judges, idsToDelete,
    processedCount, results, httpResponse, evalError, evalOutcome, conflict>>

callVars == <<callJudge, requests, timerArmed, response, content, callOutcome>>

vars == <<judge_assignments, evaluations, OPENAI_SECRET_KEY, answers, storeVars, clientVars, pc, request, submissionIds,
          questionIds, answerMap, assignments, judges, idsToDelete, processedCount,
          results, httpResponse, callJudge, requests, timerArmed, response, content,
          callOutcome, evalError, evalOutcome, conflict>>

\* The locals of a handler invocation before its first statement.
FreshLocals ==
  /\ submissionIds' = {}
  /\ questionIds' = {}
  /\ answerMap' = <<>>
  /\ assignments' = <<>>
  /\ judges' = {}
  /\ idsToDelete' = {}
  /\ processedCount' = 0
  /\ results' = <<>>
  /\ evalError' = None
  /\ evalOutcome' = None
  /\ conflict' = FALSE
  /\ callJudge' = UNDEF
  /\ requests' = <<>>
  /\ timerArmed' = FALSE
  /\ response' = None
  /\ content' = UNDEF
  /\ callOutcome' = None

\* No page of the front end is open.
NoUi == tabs = <<>> /\ upload = None /\ assignStep = None

\* No other invocation and no client is active.
NoClients == runs = <<>> /\ NoUi

\* The owners of the workspaces of the fixture.
WorkspaceOwner == [w0 |-> "u1", w1 |-> "u1", w2 |-> "u2"]

\* The rows of the fixture, as the tables hold them.
FixtureRows ==
  /\ workspaces =
       {[id |-> w, user_id |-> WorkspaceOwner[w], temporary |-> FALSE] : w \in Workspaces}
  /\ submissions = {[id |-> x, workspace_id |-> SubmissionWorkspace[x]] : x \in Submissions}
  /\ questions = {[id |-> q, submission_id |-> QuestionSubmission[q]] : q \in Questions}
  /\ judgeRows = {[id |-> j, user_id |-> JudgeOwner[j]] : j \in Judges}
  /\ workspace_judge_selections = {}
  /\ pending = None
  /\ listed = None
  /\ NoClients

Init ==
  /\ FixtureRows
  /\ judge_assignments = {}
  /\ evaluations = {}
  /\ OPENAI_SECRET_KEY \in BOOLEAN
  /\ answers \in AnswerTables
  /\ pc = "idle"
  /\ request = None
  /\ submissionIds = {}
  /\ questionIds = {}
  /\ answerMap = <<>>
  /\ assignments = <<>>
  /\ judges = {}
  /\ idsToDelete = {}
  /\ processedCount = 0
  /\ results = <<>>
  /\ httpResponse = None
  /\ callJudge = UNDEF
  /\ requests = <<>>
  /\ timerArmed = FALSE
  /\ response = None
  /\ content = UNDEF
  /\ callOutcome = None
  /\ evalError = None
  /\ evalOutcome = None
  /\ conflict = FALSE

(***************************************************************************)
(* Responses of the trigger endpoint (index.ts).                           *)
(***************************************************************************)
\* the filter with the bug "only successful evaluations are counted"
CountVerdictOfSuccessful(rs, v) ==
  Cardinality({i \in 1..Len(rs) : rs[i].verdict = v /\ rs[i].success})

CountVerdict(rs, v) == Cardinality({i \in 1..Len(rs) : rs[i].verdict = v})

successResponse(rs) ==
  [status |-> 200,
   body |-> [results |-> rs, success |-> TRUE,
             processed |-> Len(rs),
             passed |-> CountVerdict(rs, "pass"),
             failed |-> CountVerdict(rs, "fail"),
             inconclusive |-> CountVerdict(rs, "inconclusive")]]

\* errorResponse with the bug "the status is not passed on"
errorResponseDefaultStatus(message, status) == [status |-> 200, body |-> [error |-> message]]

errorResponse(message, status) == [status |-> status, body |-> [error |-> message]]

\* The handler returns resp.
Return(resp) ==
  /\ httpResponse' = resp
  /\ pc' = "returned"

\* the catch clause with the bug "a failure is reported as an empty success"
CatchAsEmptySuccess(error) == Return(successResponse(<<>>))

\* The catch clause of the handler: an exception becomes a 500 response.
Catch(error) == Return(errorResponse(ErrorMessage(error), 500))

Requests ==
  [workspaceId : Workspaces \cup {UNDEF}, userId : Users \cup {UNDEF}]

(***************************************************************************)
(* Front end: assignment operations (judgeManagementService.ts).           *)
(***************************************************************************)
Ids(rows) == {r.id : r \in rows}

\* The submissions of the workspaces wids, the questions of the submissions sids.
SubmissionsOfWorkspaces(wids) == {x.id : x \in {y \in submissions : y.workspace_id \in wids}}

QuestionsOfSubmissions(sids) == {q.id : q \in {y \in questions : y.submission_id \in sids}}

\* questionsToAssign with the bug "the texts are compared as stored"
QuestionsWithSameTextExact(q) ==
  LET question == CHOOSE x \in questions : x.id = q
      submission == CHOOSE x \in submissions : x.id = question.submission_id
      workspaceSubmissions == SubmissionsOfWorkspaces({submission.workspace_id})
  IN {x \in QuestionsOfSubmissions(workspaceSubmissions) : QuestionText[x] = QuestionText[q]}

\* questionsToAssign / questionsToUnassign: the questions of the workspace of q
\* with the same trimmed, lower-cased text as q.
QuestionsWithSameText(q) ==
  LET question == CHOOSE x \in questions : x.id = q
      submission == CHOOSE x \in submissions : x.id = question.submission_id
      normalizedText == ToLowerCase(Trim(QuestionText[q]))
      workspaceSubmissions == SubmissionsOfWorkspaces({submission.workspace_id})
  IN {x \in QuestionsOfSubmissions(workspaceSubmissions) :
        ToLowerCase(Trim(QuestionText[x])) = normalizedText}

assignJudgeToQuestion(judgeId, questionId) ==
  /\ questionId \in Ids(questions)
  /\ judge_assignments' =
       judge_assignments \cup
         {Assignment(judgeId, q) : q \in QuestionsWithSameText(questionId)}
  /\ UNCHANGED <<evaluations, envVars, pc, runVars, callVars>>

unassignJudgeFromQuestion(judgeId, questionId) ==
  /\ questionId \in Ids(questions)
  /\ judge_assignments' =
       judge_assignments \
         {Assignment(judgeId, q) : q \in QuestionsWithSameText(questionId)}
  /\ UNCHANGED <<evaluations, envVars, pc, runVars, callVars>>

(***************************************************************************)
(* Batch Runner: the serve handler of index.ts, one action per await.      *)
(***************************************************************************)
handlerLocals ==
  <<submissionIds, questionIds, answerMap, assignments, judges, idsToDelete,
    processedCount, results>>

\* A request arrives: credential check, body parsing, field validation.
Serve(req) ==
  /\ pc = "idle"
  /\ request' = req
  /\ IF ~OPENAI_SECRET_KEY
       THEN Catch(Thrown(TRUE, "OPENAI_SECRET_KEY not configured in environment variables"))
       ELSE IF req.workspaceId = UNDEF \/ req.userId = UNDEF
              THEN Return(errorResponse("Missing workspaceId or userId", 400))
              ELSE pc' = "getSubmissions" /\ UNCHANGED httpResponse
  /\ UNCHANGED <<dbVars, envVars, handlerLocals, evalError, evalOutcome,
                 conflict, callVars>>

\* the select of getSubmissionsForWorkspace with the bug "no filter on workspace_id"
WorkspaceSubmissionsUnfiltered(workspaceId) == Ids(submissions)

\* The select of getSubmissionsForWorkspace: .eq('workspace_id', workspaceId)
WorkspaceSubmissions(workspaceId) ==
  {x.id : x \in {y \in submissions : y.workspace_id = workspaceId}}

\* question.submission_id of the question map; it is read at step 2, and no
\* row of questions changes while a run is in progress.
SubmissionOf(questionId) == (CHOOSE q \in questions : q.id = questionId).submission_id

\* Step 1: getSubmissionsForWorkspace
GetSubmissions ==
  /\ pc = "getSubmissions"
  /\ \/ \E e \in DbErrors : Catch(e) /\ UNCHANGED submissionIds
     \/ LET data == WorkspaceSubmissions(request.workspaceId) IN
          IF data = {}
            THEN Catch(Thrown(TRUE, "No submissions found in workspace"))
                   /\ UNCHANGED submissionIds
            ELSE submissionIds' = data /\ pc' = "getQuestions" /\ UNCHANGED httpResponse
  /\ UNCHANGED <<dbVars, envVars, request, questionIds, answerMap, assignments,
                 judges, idsToDelete, processedCount, results, evalError, evalOutcome,
                 conflict, callVars>>

\* Step 2: getQuestionsForSubmissions
GetQuestions ==
  /\ pc = "getQuestions"
  /\ \/ \E e \in DbErrors : Catch(e) /\ UNCHANGED questionIds
     \/ LET data == {q.id : q \in {x \in questions : x.submission_id \in submissionIds}} IN
          IF data = {}
            THEN Catch(Thrown(TRUE, "No questions found")) /\ UNCHANGED questionIds
            ELSE questionIds' = data /\ pc' = "getAnswers" /\ UNCHANGED httpResponse
  /\ UNCHANGED <<dbVars, envVars, request, submissionIds, answerMap, assignments,
                 judges, idsToDelete, processedCount, results, evalError, evalOutcome,
                 conflict, callVars>>

\* Step 3: getAnswersForQuestions
GetAnswers ==
  /\ pc = "getAnswers"
  /\ \/ \E e \in DbErrors : Catch(e) /\ UNCHANGED answerMap
     \/ /\ answerMap' = [q \in questionIds \cap DOMAIN answers |-> answers[q]]
        /\ pc' = "getAssignments"
        /\ UNCHANGED httpResponse
  /\ UNCHANGED <<dbVars, envVars, request, submissionIds, questionIds, assignments,
                 judges, idsToDelete, processedCount, results, evalError, evalOutcome,
                 conflict, callVars>>

\* the catch of step 4 with the bug "the error is not special-cased"
NoAssignmentsRethrown == errorResponse("No judge assignments found", 500)

\* The catch of step 4: 'No judge assignments found' becomes an empty success.
NoAssignmentsResponse == successResponse(<<>>)

\* Step 4: getJudgeAssignments; "No judge assignments found" is an empty success.
GetAssignments ==
  /\ pc = "getAssignments"
  /\ \/ \E e \in DbErrors : Catch(e) /\ UNCHANGED assignments
     \/ LET data == {a \in judge_assignments : a.question_id \in questionIds} IN
          IF data = {}
            THEN Return(NoAssignmentsResponse) /\ UNCHANGED assignments
            ELSE /\ \E order \in Orderings(data) : assignments' = order
                 /\ pc' = "getJudges"
                 /\ UNCHANGED httpResponse
  /\ UNCHANGED <<dbVars, envVars, request, submissionIds, questionIds, answerMap,
                 judges, idsToDelete, processedCount, results, evalError, evalOutcome,
                 conflict, callVars>>

\* the select of getJudgesForUser with the bug "no filter on user_id"
JudgesForAnyUser(judgeIds, userId) == judgeIds

\* The select of getJudgesForUser: .in('id', judgeIds).eq('user_id', userId)
JudgesForUser(judgeIds, userId) == {j \in judgeIds : JudgeOwner[j] = userId}

\* Step 5: getJudgesForUser; "No judges found" is an empty success.
GetJudges ==
  /\ pc = "getJudges"
  /\ \/ \E e \in DbErrors : Catch(e) /\ UNCHANGED judges
     \/ LET judgeIds == {assignments[i].judge_id : i \in 1..Len(assignments)}
            data == JudgesForUser(judgeIds, request.userId)
        IN IF data = {}
             THEN Return(successResponse(<<>>)) /\ UNCHANGED judges
             ELSE judges' = data /\ pc' = "deleteOldEvaluations" /\ UNCHANGED httpResponse
  /\ UNCHANGED <<dbVars, envVars, request, submissionIds, questionIds, answerMap,
                 assignments, idsToDelete, processedCount, results, evalError, evalOutcome,
                 conflict, callVars>>

\* Step 6, first query of deleteOldEvaluations: select the rows of the questions.
DeleteOldEvaluationsSelect ==
  /\ pc = "deleteOldEvaluations"
  /\ \/ \E e \in DbErrors : Catch(e) /\ UNCHANGED idsToDelete
     \/ LET ids == EvaluationsToDelete(evaluations, questionIds, assignments) IN
          /\ idsToDelete' = ids
          /\ pc' = IF ids = {} THEN "loop" ELSE "deleteOldEvaluationsDelete"
          /\ UNCHANGED httpResponse
  /\ UNCHANGED <<dbVars, envVars, request, submissionIds, questionIds, answerMap,
                 assignments, judges, processedCount, results, evalError, evalOutcome,
                 conflict, callVars>>

\* Step 6, second query of deleteOldEvaluations: delete the selected rows by id.
DeleteOldEvaluationsDelete ==
  /\ pc = "deleteOldEvaluationsDelete"
  /\ \/ \E e \in DbErrors : Catch(e) /\ UNCHANGED evaluations
     \/ /\ evaluations' = {e \in evaluations : e.id \notin idsToDelete}
        /\ pc' = "loop"
        /\ UNCHANGED httpResponse
  /\ UNCHANGED <<judge_assignments, envVars, request, handlerLocals, evalError,
                 evalOutcome, conflict, callVars>>

(***************************************************************************)
(* Model Caller: the asynchronous steps of callOpenAI (openAI.ts).         *)
(***************************************************************************)
\* callOpenAI is entered for a judge: the first makeRequest is sent.
CallOpenAI(judge, answerJson) ==
  /\ callJudge' = judge
  /\ requests' = <<RequestBody(judge, buildTypeSpecificPrompt(answerJson),
                               supportsTemperature(JudgeModel[judge]))>>
  /\ timerArmed' = TRUE
  /\ response' = None
  /\ content' = UNDEF
  /\ callOutcome' = None
  /\ pc' = "fetch"

\* callOpenAI returns or throws outcome.
CallEnds(outcome) ==
  /\ callOutcome' = outcome
  /\ pc' = "callReturn"

\* fetch resolves with a response from R before the timer fires.
FetchResolves(R) ==
  /\ pc = "fetch"
  /\ \E resp \in R : response' = resp
  /\ timerArmed' = FALSE
  /\ pc' = IF response'.ok THEN "json" ELSE "text"
  /\ UNCHANGED <<dbVars, envVars, runVars, callJudge, requests, content,
                 callOutcome>>

\* fetch rejects for a network failure.
FetchRejects ==
  /\ pc = "fetch"
  /\ timerArmed' = FALSE
  /\ CallEnds(NetworkError)
  /\ UNCHANGED <<dbVars, envVars, runVars, callJudge, requests, response, content>>

\* The two-minute timer fires: the request is aborted.
TimerFires ==
  /\ timerArmed
  /\ pc = "fetch"
  /\ timerArmed' = FALSE
  /\ CallEnds(TimeoutError(callJudge))
  /\ UNCHANGED <<dbVars, envVars, runVars, callJudge, requests, response, content>>

\* response.text() of a response that is not ok resolves.
TextArrives ==
  /\ pc = "text"
  /\ IF Len(requests) = 1
       THEN IF shouldRetry(response.errorText)
              THEN /\ requests' = Append(requests, RequestBody(callJudge,
                                                requests[1].messages[2].content, FALSE))
                   /\ timerArmed' = TRUE
                   /\ pc' = "fetch"
                   /\ UNCHANGED callOutcome
              ELSE /\ CallEnds(FirstResponseError(response))
                   /\ UNCHANGED <<requests, timerArmed>>
       ELSE /\ CallEnds(RetryResponseError(response, callJudge))
            /\ UNCHANGED <<requests, timerArmed>>
  /\ UNCHANGED <<dbVars, envVars, runVars, callJudge, response, content>>

\* response.json() of an ok response resolves (or rejects for a body that is
\* not JSON); the content is validated.
JsonArrives ==
  /\ pc = "json"
  /\ content' = IF response.data.valid /\ response.data.hasChoices
                  THEN response.data.content
                  ELSE UNDEF
  /\ CallEnds(ContentOutcome(response.data))
  /\ UNCHANGED <<dbVars, envVars, runVars, callJudge, requests, timerArmed,
                 response>>

\* Reading the body fails (connection reset while the body is streamed).
BodyFails ==
  /\ pc \in {"text", "json"}
  /\ CallEnds(BodyError)
  /\ UNCHANGED <<dbVars, envVars, runVars, callJudge, requests, timerArmed,
                 response, content>>

(***************************************************************************)
(* Evaluation Orchestrator: evaluateAssignment (evaluate.ts).              *)
(***************************************************************************)
EvaluationResult(assignment, verdict, success, error) ==
  [verdict |-> verdict, error |-> error,
   questionId |-> assignment.question_id, judgeId |-> assignment.judge_id, success |-> success]

ResultReturned(result) == [kind |-> "return", result |-> result]

\* the result of the catch clause with the bug "the verdict is fail"
CatchResultAsFail(assignment, error) ==
  EvaluationResult(assignment, "fail", FALSE, ErrorMessage(error))

\* The result returned from the catch clause.
CatchResult(assignment, error) ==
  EvaluationResult(assignment, "inconclusive", FALSE, ErrorMessage(error))

\* The inner catch with the bug "rethrow the save error"
FallbackSaveFailedRethrow(assignment, error, saveError) == saveError

\* The fallback save failed with saveError: it is logged, nothing else.
FallbackSaveFailed(assignment, error, saveError) ==
  ResultReturned(CatchResult(assignment, error))

\* results.push with the bug "failed evaluations are dropped"
PushResultIfSuccess(rs, result) == IF result.success THEN Append(rs, result) ELSE rs

\* results.push(result)
PushResult(rs, result) == Append(rs, result)

\* The assignment that the loop is processing.
CurrentAssignment == assignments[processedCount]

HasRow(evals, a) ==
  \E e \in evals : e.question_id = a.question_id /\ e.judge_id = a.judge_id

\* A row has to be inserted only if the pair has none.
CanSave(a) ==
  \/ HasRow(evaluations, a)
  \/ UnusedIds(evaluations, a.question_id, a.judge_id) # {}

\* evaluateAssignment resumes after callOpenAI.
EvaluateResume ==
  /\ pc = "callReturn"
  /\ IF callOutcome.kind = "return"
       THEN pc' = "saveEvaluation" /\ UNCHANGED evalError
       ELSE pc' = "fallbackSave" /\ evalError' = callOutcome
  /\ UNCHANGED <<dbVars, envVars, request, handlerLocals, httpResponse, evalOutcome,
                 conflict, callVars>>

\* evaluateAssignment returned or threw: back in the loop of the handler.
EvaluateEnds(outcome) ==
  /\ evalOutcome' = outcome
  /\ IF outcome.kind = "return"
       THEN /\ results' = PushResult(results, outcome.result)
            /\ pc' = "loop"
            /\ UNCHANGED httpResponse
       ELSE /\ Catch(outcome)
            /\ UNCHANGED results

\* saveEvaluation of the validated result.
SaveEvaluation ==
  /\ pc = "saveEvaluation"
  /\ LET a == CurrentAssignment IN
       \/ /\ CanSave(a)
          /\ evaluations' =
               Upsert(evaluations, SubmissionOf(a.question_id), a.question_id,
                      a.judge_id, callOutcome.verdict,
                      IF callOutcome.reasoning = "" THEN NULL ELSE callOutcome.reasoning)
          /\ conflict' = HasRow(evaluations, a)
          /\ EvaluateEnds(ResultReturned(
               EvaluationResult(a, callOutcome.verdict, TRUE, UNDEF)))
          /\ UNCHANGED evalError
       \/ /\ \E e \in DbErrors : evalError' = e
          /\ pc' = "fallbackSave"
          /\ UNCHANGED <<evaluations, results, httpResponse, evalOutcome, conflict>>
  /\ UNCHANGED <<judge_assignments, envVars, request, submissionIds, questionIds,
                 answerMap, assignments, judges, idsToDelete, processedCount, callVars>>

\* saveEvaluation of the inconclusive verdict in the catch clause.
FallbackSave ==
  /\ pc = "fallbackSave"
  /\ LET a == CurrentAssignment IN
       \/ /\ CanSave(a)
          /\ evaluations' =
               Upsert(evaluations, SubmissionOf(a.question_id), a.question_id,
                      a.judge_id, "inconclusive", "Error: " \o ErrorMessage(evalError))
          /\ conflict' = HasRow(evaluations, a)
          /\ EvaluateEnds(ResultReturned(CatchResult(a, evalError)))
       \/ /\ \E saveError \in DbErrors :
               EvaluateEnds(FallbackSaveFailed(a, evalError, saveError))
          /\ UNCHANGED <<evaluations, conflict>>
  /\ UNCHANGED <<judge_assignments, envVars, request, submissionIds, questionIds,
                 answerMap, assignments, judges, idsToDelete, processedCount, evalError,
                 callVars>>

(***************************************************************************)
(* Batch Runner: the assignment loop and the summary (index.ts).           *)
(***************************************************************************)
Resolved(a) == a.judge_id \in judges /\ a.question_id \in questionIds

\* questionMap: answer_json of a question is answerMap.get(q.id), which is
\* undefined for a question without an answer row.
QuestionAnswer(questionId) ==
  IF questionId \in DOMAIN answerMap THEN answerMap[questionId] ELSE UNDEF

\* An assignment whose judge or question is not in the maps is skipped.
LoopSkip ==
  /\ pc = "loop"
  /\ processedCount < Len(assignments)
  /\ ~Resolved(assignments[processedCount + 1])
  /\ processedCount' = processedCount + 1
  /\ UNCHANGED <<dbVars, envVars, pc, request, submissionIds, questionIds, answerMap,
                 assignments, judges, idsToDelete, results, httpResponse, evalError,
                 evalOutcome, conflict, callVars>>

\* the loop with the bug "evaluateAssignment is not awaited": the next call
\* starts while the save of the previous evaluation is pending
LoopEvaluateWithoutAwait ==
  /\ pc \in {"loop", "saveEvaluation"}
  /\ processedCount < Len(assignments)
  /\ Resolved(assignments[processedCount + 1])
  /\ processedCount' = processedCount + 1
  /\ evalError' = None
  /\ evalOutcome' = None
  /\ conflict' = FALSE
  /\ CallOpenAI(assignments[processedCount + 1].judge_id,
                QuestionAnswer(assignments[processedCount + 1].question_id))
  /\ UNCHANGED <<dbVars, envVars, request, submissionIds, questionIds, answerMap,
                 assignments, judges, idsToDelete, results, httpResponse>>

\* The next assignment is handed to evaluateAssignment, which calls callOpenAI.
LoopEvaluate ==
  /\ pc = "loop"
  /\ processedCount < Len(assignments)
  /\ Resolved(assignments[processedCount + 1])
  /\ processedCount' = processedCount + 1
  /\ evalError' = None
  /\ evalOutcome' = None
  /\ conflict' = FALSE
  /\ CallOpenAI(assignments[processedCount + 1].judge_id,
                QuestionAnswer(assignments[processedCount + 1].question_id))
  /\ UNCHANGED <<dbVars, envVars, request, submissionIds, questionIds, answerMap,
                 assignments, judges, idsToDelete, results, httpResponse>>

\* Step 9: all assignments are processed, the summary is returned.
LoopReturn ==
  /\ pc = "loop"
  /\ processedCount = Len(assignments)
  /\ Return(successResponse(results))
  /\ UNCHANGED <<dbVars, envVars, request, handlerLocals, evalError, evalOutcome,
                 conflict, callVars>>

\* The response reaches the caller; the function is ready for the next request.
Deliver ==
  /\ pc = "returned"
  /\ pc' = "idle"
  /\ request' = None
  /\ httpResponse' = None
  /\ FreshLocals
  /\ UNCHANGED <<dbVars, envVars>>

(***************************************************************************)
(* Front end: workspaces, submissions, questions and judges, with the      *)
(* ON DELETE CASCADE foreign keys of schema.sql.                           *)
(***************************************************************************)
\* the foreign keys of evaluations with the bug "judge_id does not cascade"
EvaluationsAfterDeleteKeepingJudges(sids, qids, jids) ==
  {e \in evaluations : e.submission_id \notin sids /\ e.question_id \notin qids}

\* evaluations: submission_id, question_id and judge_id are ON DELETE CASCADE
EvaluationsAfterDelete(sids, qids, jids) ==
  {e \in evaluations :
     e.submission_id \notin sids /\ e.question_id \notin qids /\ e.judge_id \notin jids}

\* DELETE of the workspaces wids, submissions sids, questions qids and judges
\* jids, with everything the foreign keys remove along with them.
DeleteRows(wids, sids, qids, jids) ==
  LET allSids == sids \cup SubmissionsOfWorkspaces(wids)
      allQids == qids \cup QuestionsOfSubmissions(allSids)
  IN /\ workspaces' = {w \in workspaces : w.id \notin wids}
     /\ submissions' = {x \in submissions : x.id \notin allSids}
     /\ questions' = {q \in questions : q.id \notin allQids}
     /\ answers' = [q \in DOMAIN answers \ allQids |-> answers[q]]
     /\ judgeRows' = {j \in judgeRows : j.id \notin jids}
     /\ workspace_judge_selections' =
          {x \in workspace_judge_selections :
             x.workspace_id \notin wids /\ x.judge_id \notin jids}
     /\ judge_assignments' =
          {a \in judge_assignments : a.question_id \notin allQids /\ a.judge_id \notin jids}
     /\ evaluations' = EvaluationsAfterDelete(allSids, allQids, jids)

\* The rest of the state, which the front-end operations below leave alone.
pipelineVars == <<OPENAI_SECRET_KEY, clientVars, pc, runVars, callVars>>

\* Ids that gen_random_uuid() can give to a new workspace.
WorkspaceIds == {"w1", "w2", "w3"}

createTemporaryWorkspace(userId) ==
  /\ \E id \in WorkspaceIds \ Ids(workspaces) :
       /\ pending # None => pending.id # id
       /\ workspaces' = workspaces \cup {[id |-> id, user_id |-> userId, temporary |-> TRUE]}
  /\ UNCHANGED <<dbVars, answers, submissions, questions, judgeRows,
                 workspace_judge_selections, pending, listed, pipelineVars>>

\* updateWorkspaceName, first query: the workspace belongs to the current user.
updateWorkspaceNameCheck(userId, workspaceId) ==
  /\ pending = None
  /\ \E w \in workspaces : w.id = workspaceId /\ w.user_id = userId
  /\ pending' = [id |-> workspaceId, op |-> "updateWorkspaceName"]
  /\ UNCHANGED <<dbVars, answers, workspaces, submissions, questions, judgeRows,
                 workspace_judge_selections, listed, pipelineVars>>

\* updateWorkspaceName, second query: update({ name, temporary: false }).eq('id', ...)
updateWorkspaceNameUpdate ==
  /\ pending # None
  /\ pending.op = "updateWorkspaceName"
  /\ workspaces' = {IF w.id = pending.id THEN [w EXCEPT !.temporary = FALSE] ELSE w :
                      w \in workspaces}
  /\ pending' = None
  /\ UNCHANGED <<dbVars, answers, submissions, questions, judgeRows,
                 workspace_judge_selections, listed, pipelineVars>>

\* deleteWorkspace, first query: the workspace belongs to the current user.
deleteWorkspaceCheck(userId, workspaceId) ==
  /\ pending = None
  /\ \E w \in workspaces : w.id = workspaceId /\ w.user_id = userId
  /\ pending' = [id |-> workspaceId, op |-> "deleteWorkspace"]
  /\ UNCHANGED <<dbVars, answers, workspaces, submissions, questions, judgeRows,
                 workspace_judge_selections, listed, pipelineVars>>

\* deleteWorkspace, second query: delete().eq('id', workspaceId)
deleteWorkspaceDelete ==
  /\ pending # None
  /\ pending.op = "deleteWorkspace"
  /\ DeleteRows({pending.id}, {}, {}, {})
  /\ pending' = None
  /\ UNCHANGED <<listed, pipelineVars>>

\* The naming dialog is skipped: the workspace is deleted by id.
handleSkipNaming(workspaceId) ==
  /\ workspaceId \in Ids(workspaces)
  /\ DeleteRows({workspaceId}, {}, {}, {})
  /\ UNCHANGED <<pending, listed, pipelineVars>>

deleteTemporaryWorkspaces(userId) ==
  /\ DeleteRows({w.id : w \in {x \in workspaces : x.user_id = userId /\ x.temporary}},
                {}, {}, {})
  /\ UNCHANGED <<pending, listed, pipelineVars>>

\* the filter of getAllUserWorkspaces with the bug "nothing is filtered out"
FilterNothing(all) == all

\* all.filter((workspace) => !workspace.temporary)
FilterSaved(all) == {w \in all : ~w.temporary}

getAllUserWorkspaces(userId) ==
  /\ listed' = [user_id |-> userId,
                rows |-> FilterSaved({w \in workspaces : w.user_id = userId})]
  /\ UNCHANGED <<dbVars, answers, workspaces, submissions, questions, judgeRows,
                 workspace_judge_selections, pending, pipelineVars>>

deleteSubmission(submissionId) ==
  /\ submissionId \in Ids(submissions)
  /\ DeleteRows({}, {submissionId}, {}, {})
  /\ UNCHANGED <<pending, listed, pipelineVars>>

\* The delete of deleteAllSubmissionsForWorkspace: .eq('workspace_id', workspaceId)
deleteAllSubmissionsForWorkspace(workspaceId) ==
  /\ SubmissionsOfWorkspaces({workspaceId}) # {}
  /\ DeleteRows({}, SubmissionsOfWorkspaces({workspaceId}), {}, {})
  /\ UNCHANGED <<pending, listed, pipelineVars>>

deleteQuestion(questionId) ==
  /\ questionId \in Ids(questions)
  /\ DeleteRows({}, {}, {questionId}, {})
  /\ UNCHANGED <<pending, listed, pipelineVars>>

\* deleteJudge, first query: the judge belongs to the current user.
deleteJudgeCheck(userId, judgeId) ==
  /\ pending = None
  /\ \E j \in judgeRows : j.id = judgeId /\ j.user_id = userId
  /\ pending' = [id |-> judgeId, op |-> "deleteJudge"]
  /\ UNCHANGED <<dbVars, answers, workspaces, submissions, questions, judgeRows,
                 workspace_judge_selections, listed, pipelineVars>>

\* deleteJudge, second query: delete().eq('id', judgeId)
deleteJudgeDelete ==
  /\ pending # None
  /\ pending.op = "deleteJudge"
  /\ DeleteRows({}, {}, {}, {pending.id})
  /\ pending' = None
  /\ UNCHANGED <<listed, pipelineVars>>

(***************************************************************************)
(* Concurrent invocations of the handler (index.ts), one action per         *)
(* database query or model call. Steps 1 to 3 read tables that no           *)
(* invocation writes and are part of RunServe.                              *)
(***************************************************************************)
RunNames == {"A", "B"}

\* The locals of an invocation for the request {workspaceId, userId}.
NewRun(workspaceId, userId) ==
  [questionIds |-> {}, pc |-> "idle", assignments |-> <<>>, judges |-> {},
   idsToDelete |-> {}, processedCount |-> 0, results |-> <<>>, httpResponse |-> None,
   workspaceId |-> workspaceId, userId |-> userId, outcome |-> None]

RunStep(r, next) ==
  /\ runs' = [runs EXCEPT ![r] = next]
  /\ UNCHANGED <<OPENAI_SECRET_KEY, answers, storeVars, uiVars, pc, runVars, callVars>>

\* Steps 1 to 3: the submissions, questions and answers of the workspace.
RunServe(r) ==
  /\ runs[r].pc = "idle"
  /\ LET data == QuestionsOfSubmissions(SubmissionsOfWorkspaces({runs[r].workspaceId})) IN
       RunStep(r, IF data = {}
                    THEN [runs[r] EXCEPT !.pc = "returned",
                            !.httpResponse = errorResponse("No questions found", 500)]
                    ELSE [runs[r] EXCEPT !.pc = "getAssignments", !.questionIds = data])
  /\ UNCHANGED dbVars

\* Steps 4 and 5: getJudgeAssignments, getJudgesForUser.
RunGetAssignments(r) ==
  /\ runs[r].pc = "getAssignments"
  /\ LET data == {a \in judge_assignments : a.question_id \in runs[r].questionIds} IN
       IF data = {} \/ JudgesForUser({a.judge_id : a \in data}, runs[r].userId) = {}
         THEN RunStep(r, [runs[r] EXCEPT !.pc = "returned",
                            !.httpResponse = successResponse(<<>>)])
         ELSE \E order \in Orderings(data) :
                RunStep(r, [runs[r] EXCEPT
                              !.pc = "deleteOldEvaluations",
                              !.assignments = order,
                              !.judges = JudgesForUser({a.judge_id : a \in data},
                                                       runs[r].userId)])
  /\ UNCHANGED dbVars

\* Step 6, the select of deleteOldEvaluations.
RunDeleteOldEvaluationsSelect(r) ==
  /\ runs[r].pc = "deleteOldEvaluations"
  /\ LET ids == EvaluationsToDelete(evaluations, runs[r].questionIds, runs[r].assignments) IN
       RunStep(r, [runs[r] EXCEPT
                     !.idsToDelete = ids,
                     !.pc = IF ids = {} THEN "loop" ELSE "deleteOldEvaluationsDelete"])
  /\ UNCHANGED dbVars

\* Step 6, the delete of deleteOldEvaluations: rows that are gone are no error.
RunDeleteOldEvaluationsDelete(r) ==
  /\ runs[r].pc = "deleteOldEvaluationsDelete"
  /\ evaluations' = {e \in evaluations : e.id \notin runs[r].idsToDelete}
  /\ RunStep(r, [runs[r] EXCEPT !.pc = "loop"])
  /\ UNCHANGED judge_assignments

RunResolved(r, a) == a.judge_id \in runs[r].judges /\ a.question_id \in runs[r].questionIds

RunLoopSkip(r) ==
  /\ runs[r].pc = "loop"
  /\ runs[r].processedCount < Len(runs[r].assignments)
  /\ ~RunResolved(r, runs[r].assignments[runs[r].processedCount + 1])
  /\ RunStep(r, [runs[r] EXCEPT !.processedCount = @ + 1])
  /\ UNCHANGED dbVars

\* evaluateAssignment calls callOpenAI; the provider answers with resp.
RunCall(r) ==
  /\ runs[r].pc = "loop"
  /\ runs[r].processedCount < Len(runs[r].assignments)
  /\ RunResolved(r, runs[r].assignments[runs[r].processedCount + 1])
  /\ \E resp \in BatchResponses :
       RunStep(r, [runs[r] EXCEPT
                     !.processedCount = @ + 1,
                     !.pc = "saveEvaluation",
                     !.outcome = IF resp.ok THEN ContentOutcome(resp.data)
                                            ELSE FirstResponseError(resp)])
  /\ UNCHANGED dbVars

\* The save of evaluateAssignment: of the verdict, or of inconclusive in the
\* catch clause.
RunSaveEvaluation(r) ==
  /\ runs[r].pc = "saveEvaluation"
  /\ LET a == runs[r].assignments[runs[r].processedCount]
         out == runs[r].outcome
         submissionId == (CHOOSE q \in questions : q.id = a.question_id).submission_id
     IN IF out.kind = "return"
          THEN /\ evaluations' =
                    Upsert(evaluations, submissionId, a.question_id, a.judge_id, out.verdict,
                           IF out.reasoning = "" THEN NULL ELSE out.reasoning)
               /\ RunStep(r, [runs[r] EXCEPT
                                !.pc = "loop",
                                !.results = PushResult(@, EvaluationResult(a, out.verdict,
                                                                            TRUE, UNDEF))])
          ELSE /\ evaluations' =
                    Upsert(evaluations, submissionId, a.question_id, a.judge_id,
                           "inconclusive", "Error: " \o ErrorMessage(out))
               /\ RunStep(r, [runs[r] EXCEPT
                                !.pc = "loop",
                                !.results = PushResult(@, CatchResult(a, out))])
  /\ UNCHANGED judge_assignments

\* Step 9.
RunLoopReturn(r) ==
  /\ runs[r].pc = "loop"
  /\ runs[r].processedCount = Len(runs[r].assignments)
  /\ RunStep(r, [runs[r] EXCEPT !.pc = "returned",
                    !.httpResponse = successResponse(runs[r].results)])
  /\ UNCHANGED dbVars

(***************************************************************************)
(* The upload workflow (WorkflowLayout, UploadStep), one action per query   *)
(* of a tab.                                                                *)
(***************************************************************************)
TabNames == {"T1", "T2"}

ImportSubmissionIds == {"s1", "s2", "s3", "s4"}

ImportQuestionIds == {"q1", "q2", "q3", "q4", "q5"}

\* The state of WorkflowLayout before the page is opened.
ClosedTab(userId) ==
  [error |-> FALSE, workspaceId |-> NULL, user |-> userId, step |-> "closed",
   cleanup |-> "none", workspace |-> NULL]

TabStep(t, next) ==
  /\ tabs' = [tabs EXCEPT ![t] = next]
  /\ UNCHANGED <<OPENAI_SECRET_KEY, runs, upload, assignStep, pending, listed, pc, runVars,
                 callVars>>

\* The page is opened: useState(null), and the effect sends the cleanup of the
\* temporary workspaces of the user without awaiting it.
Mount(t) ==
  /\ tabs[t].step = "closed"
  /\ TabStep(t, [tabs[t] EXCEPT !.step = "upload", !.cleanup = "inFlight"])
  /\ UNCHANGED <<dbVars, answers, workspaces, submissions, questions, judgeRows,
                 workspace_judge_selections>>

\* The delete of deleteTemporaryWorkspaces reaches the database.
CleanupArrives(t) ==
  /\ tabs[t].cleanup = "inFlight"
  /\ DeleteRows({w.id : w \in {x \in workspaces : x.user_id = tabs[t].user /\ x.temporary}},
                {}, {}, {})
  /\ TabStep(t, [tabs[t] EXCEPT !.cleanup = "done"])

\* processJsonData without an existing workspace: createTemporaryWorkspace.
UploadCreate(t) ==
  /\ tabs[t].step = "upload"
  /\ \E id \in WorkspaceIds \ (Ids(workspaces) \cup {tabs[x].workspace : x \in DOMAIN tabs}) :
       /\ workspaces' = workspaces \cup
                          {[id |-> id, user_id |-> tabs[t].user, temporary |-> TRUE]}
       /\ TabStep(t, [tabs[t] EXCEPT !.step = "importing", !.workspace = id,
                                     !.error = FALSE])
  /\ UNCHANGED <<dbVars, answers, submissions, questions, judgeRows,
                 workspace_judge_selections>>

\* processJsonData: the submission with its question and answer is inserted
\* into the workspace; the insert fails when the workspace row is gone.
UploadImport(t) ==
  /\ tabs[t].step = "importing"
  /\ IF tabs[t].workspace \in Ids(workspaces)
       THEN \E sid \in ImportSubmissionIds \ Ids(submissions),
               qid \in ImportQuestionIds \ (Ids(questions) \cup DOMAIN answers) :
              /\ submissions' = submissions \cup
                                  {[id |-> sid, workspace_id |-> tabs[t].workspace]}
              /\ questions' = questions \cup {[id |-> qid, submission_id |-> sid]}
              /\ answers' = [q \in DOMAIN answers \cup {qid} |->
                               IF q = qid THEN Answers["q1"] ELSE answers[q]]
              /\ TabStep(t, [tabs[t] EXCEPT !.step = "workflow",
                                            !.workspaceId = tabs[t].workspace])
       ELSE /\ TabStep(t, [tabs[t] EXCEPT !.step = "upload", !.workspace = NULL,
                                          !.error = TRUE])
            /\ UNCHANGED <<submissions, questions, answers>>
  /\ UNCHANGED <<dbVars, workspaces, judgeRows, workspace_judge_selections>>

\* onSave of the naming dialog, first query of updateWorkspaceName.
SaveCheck(t) ==
  /\ tabs[t].step = "workflow"
  /\ IF \E w \in workspaces : w.id = tabs[t].workspaceId /\ w.user_id = tabs[t].user
       THEN TabStep(t, [tabs[t] EXCEPT !.step = "saving", !.error = FALSE])
       ELSE TabStep(t, [tabs[t] EXCEPT !.error = TRUE])
  /\ UNCHANGED <<dbVars, answers, workspaces, submissions, questions, judgeRows,
                 workspace_judge_selections>>

\* onSave, second query of updateWorkspaceName.
SaveUpdate(t) ==
  /\ tabs[t].step = "saving"
  /\ workspaces' = {IF w.id = tabs[t].workspaceId THEN [w EXCEPT !.temporary = FALSE] ELSE w :
                      w \in workspaces}
  /\ TabStep(t, [tabs[t] EXCEPT !.step = "saved"])
  /\ UNCHANGED <<dbVars, answers, submissions, questions, judgeRows,
                 workspace_judge_selections>>

\* onSkip of the naming dialog, first query of deleteWorkspace.
SkipCheck(t) ==
  /\ tabs[t].step = "workflow"
  /\ IF \E w \in workspaces : w.id = tabs[t].workspaceId /\ w.user_id = tabs[t].user
       THEN TabStep(t, [tabs[t] EXCEPT !.step = "skipping", !.error = FALSE])
       ELSE TabStep(t, [tabs[t] EXCEPT !.error = TRUE])
  /\ UNCHANGED <<dbVars, answers, workspaces, submissions, questions, judgeRows,
                 workspace_judge_selections>>

\* onSkip, second query of deleteWorkspace, and setWorkspaceId(null).
SkipDelete(t) ==
  /\ tabs[t].step = "skipping"
  /\ DeleteRows({tabs[t].workspaceId}, {}, {}, {})
  /\ TabStep(t, [tabs[t] EXCEPT !.step = "skipped", !.workspaceId = NULL])

(***************************************************************************)
(* The upload into an existing workspace (UploadStep.processJsonData,      *)
(* submissionImportService.ts), one action per query.                      *)
(***************************************************************************)
\* The parsed files: for every submission the number of its questions, each
\* with an answer.
MaxSubmissions == 2

MaxQuestions == 2

ParsedFiles ==
  {f \in UNION {[1..n -> 0..MaxQuestions] : n \in 0..MaxSubmissions} :
     \A i \in DOMAIN f, j \in DOMAIN f : i # j => f[i] + f[j] <= MaxQuestions + 1}

\* The submissions of a workspace with their questions and answers.
WorkspaceContent(workspaceId) ==
  LET sids == SubmissionsOfWorkspaces({workspaceId})
      qids == QuestionsOfSubmissions(sids)
  IN [answers |-> [q \in qids \cap DOMAIN answers |-> answers[q]],
      submissions |-> {x \in submissions : x.id \in sids},
      questions |-> {q \in questions : q.id \in qids}]

ContentIds(c) == Ids(c.submissions) \cup Ids(c.questions)

UploadStepTo(next) ==
  /\ upload' = next
  /\ UNCHANGED <<OPENAI_SECRET_KEY, runs, tabs, assignStep, pending, listed, pc, runVars,
                 callVars,
                 workspaces, judgeRows, workspace_judge_selections>>

\* catch: setError; onComplete is not called.
UploadFails == UploadStepTo([upload EXCEPT !.step = "failed"])

\* A file is dropped on the upload page of the workspace: parse and validate.
processJsonData(workspaceId, parsedSubmissions) ==
  /\ upload.step \in {"idle", "failed", "done"}
  /\ LET started == [i |-> 1, workspaceId |-> workspaceId,
                     question |-> NULL, submission |-> NULL, step |-> "verify",
                     parsedSubmissions |-> parsedSubmissions, k |-> 1, imported |-> {},
                     before |-> WorkspaceContent(workspaceId)]
     IN IF \/ Len(parsedSubmissions) = 0
           \/ \E i \in DOMAIN parsedSubmissions : parsedSubmissions[i] = 0
          THEN UploadStepTo([started EXCEPT !.step = "failed"])
          ELSE UploadStepTo(started)
  /\ UNCHANGED <<dbVars, answers, submissions, questions>>

\* select('id').eq('id', existingWorkspaceId).single()
VerifyWorkspace ==
  /\ upload.step = "verify"
  /\ \E ok \in BOOLEAN :
       IF ok /\ upload.workspaceId \in Ids(workspaces)
         THEN UploadStepTo([upload EXCEPT !.step = "clearSelect"])
         ELSE UploadFails
  /\ UNCHANGED <<dbVars, answers, submissions, questions>>

\* deleteAllSubmissionsForWorkspace, first query: the submissions are counted.
ClearSelect ==
  /\ upload.step = "clearSelect"
  /\ \E ok \in BOOLEAN :
       IF ~ok
         THEN UploadFails
         ELSE IF SubmissionsOfWorkspaces({upload.workspaceId}) = {}
                THEN UploadStepTo([upload EXCEPT !.step = "insertSubmission"])
                ELSE UploadStepTo([upload EXCEPT !.step = "clearDelete"])
  /\ UNCHANGED <<dbVars, answers, submissions, questions>>

\* deleteAllSubmissionsForWorkspace, second query: delete().eq('workspace_id', ...)
ClearDelete ==
  /\ upload.step = "clearDelete"
  /\ \E ok \in BOOLEAN :
       IF ok
         THEN /\ DeleteRows({}, SubmissionsOfWorkspaces({upload.workspaceId}), {}, {})
              /\ upload' = [upload EXCEPT !.step = "insertSubmission"]
         ELSE /\ upload' = [upload EXCEPT !.step = "failed"]
              /\ UNCHANGED <<dbVars, answers, workspaces, submissions, questions, judgeRows,
                             workspace_judge_selections>>
  /\ UNCHANGED <<OPENAI_SECRET_KEY, runs, tabs, assignStep, pending, listed, pc, runVars,
                 callVars>>

\* createSubmissionWithQuestionsAndAnswers: insert({ workspace_id })
InsertSubmission ==
  /\ upload.step = "insertSubmission"
  /\ \E ok \in BOOLEAN :
       IF ok /\ upload.workspaceId \in Ids(workspaces)
         THEN \E sid \in ImportSubmissionIds \ (Ids(submissions) \cup ContentIds(upload.before)) :
                /\ submissions' = submissions \cup
                                    {[id |-> sid, workspace_id |-> upload.workspaceId]}
                /\ UploadStepTo([upload EXCEPT !.step = "insertQuestion", !.submission = sid,
                                               !.k = 1, !.imported = @ \cup {sid}])
         ELSE UploadFails /\ UNCHANGED submissions
  /\ UNCHANGED <<dbVars, answers, questions>>

\* createSubmissionWithQuestionsAndAnswers: insert({ submission_id, ... })
InsertQuestion ==
  /\ upload.step = "insertQuestion"
  /\ \E ok \in BOOLEAN :
       IF ok /\ upload.submission \in Ids(submissions)
         THEN \E qid \in ImportQuestionIds \
                           (Ids(questions) \cup DOMAIN answers \cup ContentIds(upload.before)) :
                /\ questions' = questions \cup {[id |-> qid, submission_id |-> upload.submission]}
                /\ UploadStepTo([upload EXCEPT !.step = "insertAnswer", !.question = qid])
         ELSE UploadFails /\ UNCHANGED questions
  /\ UNCHANGED <<dbVars, answers, submissions>>

\* createSubmissionWithQuestionsAndAnswers: the answer is inserted, an error is
\* logged only; then the next question, the next submission, or onComplete.
InsertAnswer ==
  /\ upload.step = "insertAnswer"
  /\ \E ok \in BOOLEAN :
       answers' = IF ok /\ upload.question \in Ids(questions)
                    THEN [q \in DOMAIN answers \cup {upload.question} |->
                            IF q = upload.question THEN Answers["q1"] ELSE answers[q]]
                    ELSE answers
  /\ IF upload.k < upload.parsedSubmissions[upload.i]
       THEN UploadStepTo([upload EXCEPT !.step = "insertQuestion", !.k = @ + 1])
       ELSE IF upload.i < Len(upload.parsedSubmissions)
              THEN UploadStepTo([upload EXCEPT !.step = "insertSubmission", !.i = @ + 1])
              ELSE UploadStepTo([upload EXCEPT !.step = "done"])
  /\ UNCHANGED <<dbVars, submissions, questions>>

(***************************************************************************)
(* The AssignStep page (AssignStep, judgeManagementService.ts,             *)
(* questionDataService.ts), one action per await of a handler call.        *)
(***************************************************************************)
ToggleCalls == {"c1", "c2"}

\* `${judgeId}-${questionId}`
AssignmentKey(judgeId, questionId) == judgeId \o "-" \o questionId

\* getQuestionsByWorkspace: one question of every group of questions of the
\* workspace with the same trimmed, lower-cased text.
getQuestionsByWorkspace(workspaceId) ==
  LET all == QuestionsOfSubmissions(SubmissionsOfWorkspaces({workspaceId}))
  IN {deduplicated \in SUBSET all :
        \A q \in all : Cardinality(deduplicated \cap QuestionsWithSameText(q)) = 1}

\* getJudgeAssignmentsForQuestions: the keys of the rows of the questions.
getJudgeAssignmentsForQuestions(qids) ==
  {AssignmentKey(a.judge_id, a.question_id) :
     a \in {x \in judge_assignments : x.question_id \in qids}}

\* getSelectedJudgesForWorkspace, applied to the judges of the user.
SelectedJudges(workspaceId, userId) ==
  {j.id : j \in {x \in judgeRows :
                   /\ x.user_id = userId
                   /\ [judge_id |-> x.id, workspace_id |-> workspaceId]
                        \in workspace_judge_selections}}

IdleCall == [questionId |-> NULL, judgeId |-> NULL, assignments |-> {}, step |-> "idle",
             isAssigned |-> FALSE]

\* The state of the page after loadData.
LoadedAssignStep(workspaceId, userId, displayed) ==
  [error |-> FALSE,
   questions |-> displayed,
   assignments |-> getJudgeAssignmentsForQuestions(displayed),
   judges |-> SelectedJudges(workspaceId, userId),
   calls |-> [c \in ToggleCalls |-> IdleCall]]

AssignStepTo(next) ==
  /\ assignStep' = next
  /\ UNCHANGED <<evaluations, OPENAI_SECRET_KEY, answers, storeVars, runs, tabs, upload,
                 pc, runVars, callVars>>

\* new Set(assignments) with the key deleted or added, where assignments is
\* the state of the render in which the handler was called.
Toggled(call) ==
  IF call.isAssigned
    THEN call.assignments \ {AssignmentKey(call.judgeId, call.questionId)}
    ELSE call.assignments \cup {AssignmentKey(call.judgeId, call.questionId)}

\* handleToggleAssignment up to its await: a cell of the matrix is clicked.
ToggleStart(c, judgeId, questionId) ==
  /\ assignStep.calls[c].step = "idle"
  /\ judgeId \in assignStep.judges
  /\ questionId \in assignStep.questions
  /\ AssignStepTo([assignStep EXCEPT
       !.calls[c] = [questionId |-> questionId, judgeId |-> judgeId,
                     assignments |-> assignStep.assignments,
                     step |-> "awaiting",
                     isAssigned |-> AssignmentKey(judgeId, questionId) \in assignStep.assignments]])
  /\ UNCHANGED judge_assignments

\* The awaited assignJudgeToQuestion or unassignJudgeFromQuestion is executed,
\* or fails.
ToggleQuery(c) ==
  LET call == assignStep.calls[c]
      rows == {Assignment(call.judgeId, q) : q \in QuestionsWithSameText(call.questionId)}
  IN /\ call.step = "awaiting"
     /\ \E ok \in BOOLEAN :
          IF ok /\ call.questionId \in Ids(questions)
            THEN /\ judge_assignments' = IF call.isAssigned
                                           THEN judge_assignments \ rows
                                           ELSE judge_assignments \cup rows
                 /\ AssignStepTo([assignStep EXCEPT !.calls[c].step = "resolved"])
            ELSE /\ UNCHANGED judge_assignments
                 /\ AssignStepTo([assignStep EXCEPT !.calls[c].step = "rejected"])

\* handleToggleAssignment after its await: setAssignments, or the catch.
ToggleResume(c) ==
  LET call == assignStep.calls[c]
  IN /\ call.step \in {"resolved", "rejected"}
     /\ IF call.step = "resolved"
          THEN AssignStepTo([assignStep EXCEPT
                 !.assignments = Toggled(call),
                 !.calls[c] = IdleCall])
          ELSE AssignStepTo([assignStep EXCEPT !.error = TRUE, !.calls[c] = IdleCall])
     /\ UNCHANGED judge_assignments

(***************************************************************************)
(* Specifications.                                                         *)
(***************************************************************************)
\* One interactive user: assignments change and runs are triggered one at a time.
Next ==
  \/ \E j \in Judges, q \in Questions : pc = "idle" /\ assignJudgeToQuestion(j, q)
  \/ \E j \in Judges, q \in Questions : pc = "idle" /\ unassignJudgeFromQuestion(j, q)
  \/ \E req \in Requests : Serve(req)
  \/ GetSubmissions
  \/ GetQuestions
  \/ GetAnswers
  \/ GetAssignments
  \/ GetJudges
  \/ DeleteOldEvaluationsSelect
  \/ DeleteOldEvaluationsDelete
  \/ LoopSkip
  \/ LoopEvaluate
  \/ FetchResolves(BatchResponses)
  \/ TimerFires
  \/ TextArrives
  \/ JsonArrives
  \/ EvaluateResume
  \/ SaveEvaluation
  \/ FallbackSave
  \/ LoopReturn
  \/ Deliver

Spec == Init /\ [][Next]_vars


\* callOpenAI alone, invoked again and again with every judge and response.
CallInit ==
  /\ Init
  /\ OPENAI_SECRET_KEY
  /\ answers = Answers

\* The runs of u1 on w1, with the credential and the answer in place and a
\* provider that answers with a verdict or a rate limit error, next to a user
\* who assigns judges between runs and unassigns them at any time.
RaceResponses == {OkResponse(Data(TRUE, TRUE, C_PASS)), ErrorResponse(429, E_RATE_LIMIT)}

RaceNext ==
  \/ \E j \in Judges, q \in Questions : pc = "idle" /\ assignJudgeToQuestion(j, q)
  \/ \E j \in Judges, q \in Questions : unassignJudgeFromQuestion(j, q)
  \/ Serve([workspaceId |-> "w1", userId |-> "u1"])
  \/ GetSubmissions
  \/ GetQuestions
  \/ GetAnswers
  \/ GetAssignments
  \/ GetJudges
  \/ DeleteOldEvaluationsSelect
  \/ DeleteOldEvaluationsDelete
  \/ LoopSkip
  \/ LoopEvaluate
  \/ FetchResolves(RaceResponses)
  \/ TimerFires
  \/ TextArrives
  \/ JsonArrives
  \/ EvaluateResume
  \/ SaveEvaluation
  \/ FallbackSave
  \/ LoopReturn
  \/ Deliver

RaceSpec == CallInit /\ [][RaceNext]_vars

\* The answer payloads callOpenAI is exercised with.
AnswerPayloads == {Answers["q1"], NULL, UNDEF}

Invoke(judge, answerJson) ==
  /\ pc \in {"idle", "callReturn"}
  /\ CallOpenAI(judge, answerJson)
  /\ UNCHANGED <<dbVars, envVars, runVars>>

CallNext ==
  \/ \E j \in Judges, answerJson \in AnswerPayloads : Invoke(j, answerJson)
  \/ FetchResolves(Responses)
  \/ FetchRejects
  \/ TimerFires
  \/ TextArrives
  \/ JsonArrives
  \/ BodyFails

CallSpec == CallInit /\ [][CallNext]_vars

\* callOpenAI under the one assumption that a timer that was armed and is not
\* cleared fires; when the provider answers, and whether it delivers the body,
\* is up to the provider.
FairCallSpec == CallSpec /\ WF_vars(TimerFires)

\* evaluateAssignment alone, invoked again and again for the assignments of the
\* judges of one user, with every provider response and save outcome.
EvalJudges == {"j1", "j2"}

InvokeEvaluate(a) ==
  /\ pc \in {"idle", "loop"}
  /\ assignments' = <<a>>
  /\ processedCount' = 1
  /\ results' = <<>>
  /\ evalError' = None
  /\ evalOutcome' = None
  /\ conflict' = FALSE
  /\ CallOpenAI(a.judge_id, answers[a.question_id])
  /\ UNCHANGED <<dbVars, envVars, request, submissionIds, questionIds, answerMap,
                 judges, idsToDelete, httpResponse>>

EvalNext ==
  \/ \E j \in EvalJudges, q \in Questions : InvokeEvaluate(Assignment(j, q))
  \/ FetchResolves(Responses)
  \/ FetchRejects
  \/ TimerFires
  \/ TextArrives
  \/ JsonArrives
  \/ BodyFails
  \/ EvaluateResume
  \/ SaveEvaluation
  \/ FallbackSave

EvalSpec == CallInit /\ [][EvalNext]_vars

\* The front end alone, on a populated database: a temporary workspace of u1
\* and a saved one of u2, each with a submission, a question with its answer,
\* and every judge selected, assigned and evaluated everywhere.
StoreInit ==
  /\ OPENAI_SECRET_KEY = TRUE
  /\ pc = "idle"
  /\ request = None
  /\ httpResponse = None
  /\ submissionIds = {}
  /\ questionIds = {}
  /\ answerMap = <<>>
  /\ assignments = <<>>
  /\ judges = {}
  /\ idsToDelete = {}
  /\ processedCount = 0
  /\ results = <<>>
  /\ evalError = None
  /\ evalOutcome = None
  /\ conflict = FALSE
  /\ callJudge = UNDEF
  /\ requests = <<>>
  /\ timerArmed = FALSE
  /\ response = None
  /\ content = UNDEF
  /\ callOutcome = None
  /\ workspaces = {[id |-> "w1", user_id |-> "u1", temporary |-> TRUE],
                   [id |-> "w2", user_id |-> "u2", temporary |-> FALSE]}
  /\ submissions = {[id |-> "s1", workspace_id |-> "w1"], [id |-> "s2", workspace_id |-> "w2"]}
  /\ questions = {[id |-> "q1", submission_id |-> "s1"], [id |-> "q2", submission_id |-> "s2"]}
  /\ answers = [q \in {"q1", "q2"} |-> Answers["q1"]]
  /\ judgeRows = {[id |-> "j1", user_id |-> "u1"], [id |-> "j3", user_id |-> "u2"]}
  /\ workspace_judge_selections =
       {[judge_id |-> j, workspace_id |-> w] : w \in {"w1", "w2"}, j \in {"j1", "j3"}}
  /\ judge_assignments = {Assignment(j, q) : j \in {"j1", "j3"}, q \in {"q1", "q2"}}
  /\ evaluations =
       {EvaluationRow(<<q, j, 1>>, IF q = "q1" THEN "s1" ELSE "s2", q, j, "pass", NULL) :
          q \in {"q1", "q2"}, j \in {"j1", "j3"}}
  /\ pending = None
  /\ listed = None
  /\ NoClients

StoreNext ==
  \/ \E u \in Users : createTemporaryWorkspace(u)
  \/ \E u \in Users, w \in WorkspaceIds : updateWorkspaceNameCheck(u, w)
  \/ updateWorkspaceNameUpdate
  \/ \E u \in Users, w \in WorkspaceIds : deleteWorkspaceCheck(u, w)
  \/ deleteWorkspaceDelete
  \/ \E w \in WorkspaceIds : handleSkipNaming(w)
  \/ \E u \in Users : deleteTemporaryWorkspaces(u)
  \/ \E u \in Users : getAllUserWorkspaces(u)
  \/ \E x \in {"s1", "s2"} : deleteSubmission(x)
  \/ \E w \in WorkspaceIds : deleteAllSubmissionsForWorkspace(w)
  \/ \E q \in {"q1", "q2"} : deleteQuestion(q)
  \/ \E u \in Users, j \in Judges : deleteJudgeCheck(u, j)
  \/ deleteJudgeDelete

StoreSpec == StoreInit /\ [][StoreNext]_vars

\* A run of u1 on w1 from step 6 on, on a table that holds rows of earlier
\* runs. q2 is a second question without assignments, of the submission of w1
\* or of the submission of w2.
SeedPairs == ({"q1"} \X Judges) \cup {<<"q2", "j1">>}

QuestionTables ==
  {{[id |-> "q1", submission_id |-> "s1"], [id |-> "q2", submission_id |-> x]} :
     x \in Submissions}

SeedRow(pair) ==
  EvaluationRow(<<pair[1], pair[2], 1>>,
                (CHOOSE q \in questions : q.id = pair[1]).submission_id,
                pair[1], pair[2], "pass", NULL)

CleanupInit ==
  /\ OPENAI_SECRET_KEY = TRUE
  /\ answers = Answers
  /\ workspaces =
       {[id |-> w, user_id |-> WorkspaceOwner[w], temporary |-> FALSE] : w \in Workspaces}
  /\ submissions = {[id |-> x, workspace_id |-> SubmissionWorkspace[x]] : x \in Submissions}
  /\ questions \in QuestionTables
  /\ judgeRows = {[id |-> j, user_id |-> JudgeOwner[j]] : j \in Judges}
  /\ workspace_judge_selections = {}
  /\ pending = None
  /\ listed = None
  /\ NoClients
  /\ judge_assignments \in
       {{Assignment(j, "q1") : j \in js} :
          js \in {x \in SUBSET Judges : JudgesForUser(x, "u1") # {}}}
  /\ evaluations \in {{SeedRow(pair) : pair \in ps} : ps \in SUBSET SeedPairs}
  /\ pc = "deleteOldEvaluations"
  /\ request = [workspaceId |-> "w1", userId |-> "u1"]
  /\ httpResponse = None
  /\ submissionIds = {"s1"}
  /\ questionIds = QuestionsOfSubmissions({"s1"})
  /\ answerMap = [q \in questionIds \cap DOMAIN answers |-> answers[q]]
  /\ assignments \in Orderings(judge_assignments)
  /\ judges = JudgesForUser({a.judge_id : a \in judge_assignments}, "u1")
  /\ idsToDelete = {}
  /\ processedCount = 0
  /\ results = <<>>
  /\ evalError = None
  /\ evalOutcome = None
  /\ conflict = FALSE
  /\ callJudge = UNDEF
  /\ requests = <<>>
  /\ timerArmed = FALSE
  /\ response = None
  /\ content = UNDEF
  /\ callOutcome = None

CleanupNext ==
  \/ DeleteOldEvaluationsSelect
  \/ DeleteOldEvaluationsDelete
  \/ LoopSkip
  \/ LoopEvaluate
  \/ FetchResolves(BatchResponses)
  \/ TimerFires
  \/ TextArrives
  \/ JsonArrives
  \/ EvaluateResume
  \/ SaveEvaluation
  \/ FallbackSave
  \/ LoopReturn
  \/ Deliver

CleanupSpec == CleanupInit /\ [][CleanupNext]_vars

\* No request is being served.
IdlePipeline ==
  /\ OPENAI_SECRET_KEY = TRUE
  /\ pc = "idle"
  /\ request = None
  /\ httpResponse = None
  /\ submissionIds = {}
  /\ questionIds = {}
  /\ answerMap = <<>>
  /\ assignments = <<>>
  /\ judges = {}
  /\ idsToDelete = {}
  /\ processedCount = 0
  /\ results = <<>>
  /\ evalError = None
  /\ evalOutcome = None
  /\ conflict = FALSE
  /\ callJudge = UNDEF
  /\ requests = <<>>
  /\ timerArmed = FALSE
  /\ response = None
  /\ content = UNDEF
  /\ callOutcome = None

\* The assignment operations alone. w1 of u1 holds q1 and q3 in one submission
\* and q2 in another, w2 of u2 holds q4; j1 may have been assigned to q1 before
\* q2 was imported.
AssignQuestions == {"q1", "q2", "q3", "q4"}

AssignInit ==
  /\ IdlePipeline
  /\ workspaces = {[id |-> "w1", user_id |-> "u1", temporary |-> FALSE],
                   [id |-> "w2", user_id |-> "u2", temporary |-> FALSE]}
  /\ submissions = {[id |-> "s1", workspace_id |-> "w1"],
                    [id |-> "s3", workspace_id |-> "w1"],
                    [id |-> "s2", workspace_id |-> "w2"]}
  /\ questions = {[id |-> "q1", submission_id |-> "s1"],
                  [id |-> "q2", submission_id |-> "s3"],
                  [id |-> "q3", submission_id |-> "s1"],
                  [id |-> "q4", submission_id |-> "s2"]}
  /\ answers = [q \in AssignQuestions |-> Answers["q1"]]
  /\ judgeRows = {[id |-> j, user_id |-> JudgeOwner[j]] : j \in Judges}
  /\ workspace_judge_selections = {}
  /\ pending = None
  /\ listed = None
  /\ NoClients
  /\ judge_assignments \in {{}, {Assignment("j1", "q1")}}
  /\ evaluations = {}

AssignNext ==
  \/ \E j \in Judges, q \in AssignQuestions : assignJudgeToQuestion(j, q)
  \/ \E j \in Judges, q \in AssignQuestions : unassignJudgeFromQuestion(j, q)

AssignSpec == AssignInit /\ [][AssignNext]_vars

\* Two invocations for w1 by its owner, interleaved query by query, on a table
\* that may hold rows of earlier runs; the database answers every query.
TwoRunInit ==
  /\ IdlePipeline
  /\ answers = Answers
  /\ workspaces =
       {[id |-> w, user_id |-> WorkspaceOwner[w], temporary |-> FALSE] : w \in Workspaces}
  /\ submissions = {[id |-> x, workspace_id |-> SubmissionWorkspace[x]] : x \in Submissions}
  /\ questions = {[id |-> q, submission_id |-> QuestionSubmission[q]] : q \in Questions}
  /\ judgeRows = {[id |-> j, user_id |-> JudgeOwner[j]] : j \in Judges}
  /\ workspace_judge_selections = {}
  /\ pending = None
  /\ listed = None
  /\ runs = [r \in RunNames |-> NewRun("w1", "u1")]
  /\ NoUi
  /\ judge_assignments \in
       {{Assignment(j, "q1") : j \in js} :
          js \in {x \in SUBSET Judges : JudgesForUser(x, "u1") # {}}}
  /\ evaluations \in {{SeedRow(<<"q1", j>>) : j \in js} : js \in SUBSET Judges}

TwoRunNext ==
  \E r \in RunNames :
    \/ RunServe(r)
    \/ RunGetAssignments(r)
    \/ RunDeleteOldEvaluationsSelect(r)
    \/ RunDeleteOldEvaluationsDelete(r)
    \/ RunLoopSkip(r)
    \/ RunCall(r)
    \/ RunSaveEvaluation(r)
    \/ RunLoopReturn(r)

TwoRunSpec == TwoRunInit /\ [][TwoRunNext]_vars

\* Runs on a database with two workspaces: w1 of u1 with q1, w2 of u2 with q2,
\* judges assigned on both sides, and rows of earlier runs for both questions.
ScopeRequests ==
  {[workspaceId |-> "w1", userId |-> "u1"], [workspaceId |-> "w2", userId |-> "u2"],
   [workspaceId |-> "w2", userId |-> "u1"]}

ScopePairs == {<<"q1", "j1">>, <<"q1", "j2">>, <<"q2", "j1">>, <<"q2", "j3">>}

ScopeInit ==
  /\ IdlePipeline
  /\ workspaces = {[id |-> "w1", user_id |-> "u1", temporary |-> FALSE],
                   [id |-> "w2", user_id |-> "u2", temporary |-> FALSE]}
  /\ submissions = {[id |-> "s1", workspace_id |-> "w1"], [id |-> "s2", workspace_id |-> "w2"]}
  /\ questions = {[id |-> "q1", submission_id |-> "s1"], [id |-> "q2", submission_id |-> "s2"]}
  /\ answers = [q \in {"q1", "q2"} |-> Answers["q1"]]
  /\ judgeRows = {[id |-> j, user_id |-> JudgeOwner[j]] : j \in Judges}
  /\ workspace_judge_selections = {}
  /\ pending = None
  /\ listed = None
  /\ NoClients
  /\ judge_assignments \in {{Assignment(p[2], p[1]) : p \in ps} : ps \in SUBSET ScopePairs}
  /\ evaluations \in {{SeedRow(p) : p \in ps} : ps \in SUBSET ScopePairs}

ScopeNext ==
  \/ \E req \in ScopeRequests : Serve(req)
  \/ GetSubmissions
  \/ GetQuestions
  \/ GetAnswers
  \/ GetAssignments
  \/ GetJudges
  \/ DeleteOldEvaluationsSelect
  \/ DeleteOldEvaluationsDelete
  \/ LoopSkip
  \/ LoopEvaluate
  \/ FetchResolves(RaceResponses)
  \/ TimerFires
  \/ TextArrives
  \/ JsonArrives
  \/ EvaluateResume
  \/ SaveEvaluation
  \/ FallbackSave
  \/ LoopReturn
  \/ Deliver

ScopeSpec == ScopeInit /\ [][ScopeNext]_vars

\* Two tabs of the front end, each of either user, on a database that holds a
\* saved workspace of u1.
TabInit ==
  /\ IdlePipeline
  /\ workspaces = {[id |-> "w3", user_id |-> "u1", temporary |-> FALSE]}
  /\ submissions = {[id |-> "s3", workspace_id |-> "w3"]}
  /\ questions = {[id |-> "q3", submission_id |-> "s3"]}
  /\ answers = [q \in {"q3"} |-> Answers["q1"]]
  /\ judgeRows = {[id |-> j, user_id |-> JudgeOwner[j]] : j \in Judges}
  /\ workspace_judge_selections = {}
  /\ judge_assignments = {}
  /\ evaluations = {}
  /\ pending = None
  /\ listed = None
  /\ runs = <<>>
  /\ tabs \in [TabNames -> {ClosedTab(u) : u \in Users}]
  /\ upload = None
  /\ assignStep = None

TabNext ==
  \E t \in TabNames :
    \/ Mount(t)
    \/ CleanupArrives(t)
    \/ UploadCreate(t)
    \/ UploadImport(t)
    \/ SaveCheck(t)
    \/ SaveUpdate(t)
    \/ SkipCheck(t)
    \/ SkipDelete(t)

TabSpec == TabInit /\ [][TabNext]_vars

\* The upload page of the saved workspace w1 of u1, which holds a submission
\* with a question, its answer, an assignment and an evaluation.
IdleUpload ==
  [i |-> 1, workspaceId |-> NULL, question |-> NULL, submission |-> NULL, step |-> "idle",
   parsedSubmissions |-> <<>>, k |-> 1, imported |-> {},
   before |-> [answers |-> <<>>, submissions |-> {}, questions |-> {}]]

ImportInit ==
  /\ IdlePipeline
  /\ workspaces = {[id |-> "w1", user_id |-> "u1", temporary |-> FALSE]}
  /\ submissions = {[id |-> "s1", workspace_id |-> "w1"]}
  /\ questions = {[id |-> "q1", submission_id |-> "s1"]}
  /\ answers = [q \in {"q1"} |-> Answers["q1"]]
  /\ judgeRows = {[id |-> j, user_id |-> JudgeOwner[j]] : j \in Judges}
  /\ workspace_judge_selections = {}
  /\ judge_assignments = {Assignment("j1", "q1")}
  /\ evaluations = {EvaluationRow(<<"q1", "j1", 1>>, "s1", "q1", "j1", "pass", NULL)}
  /\ pending = None
  /\ listed = None
  /\ runs = <<>>
  /\ tabs = <<>>
  /\ upload = IdleUpload
  /\ assignStep = None

ImportNext ==
  \/ \E f \in ParsedFiles : upload.step = "idle" /\ processJsonData("w1", f)
  \/ VerifyWorkspace
  \/ ClearSelect
  \/ ClearDelete
  \/ InsertSubmission
  \/ InsertQuestion
  \/ InsertAnswer

ImportSpec == ImportInit /\ [][ImportNext]_vars

\* The AssignStep page of w1, loaded by u1, who has selected both of their
\* judges; handler calls start while earlier ones are awaiting.
MatrixInit ==
  /\ IdlePipeline
  /\ workspaces = {[id |-> "w1", user_id |-> "u1", temporary |-> FALSE],
                   [id |-> "w2", user_id |-> "u2", temporary |-> FALSE]}
  /\ submissions = {[id |-> "s1", workspace_id |-> "w1"],
                    [id |-> "s3", workspace_id |-> "w1"],
                    [id |-> "s2", workspace_id |-> "w2"]}
  /\ questions = {[id |-> "q1", submission_id |-> "s1"],
                  [id |-> "q2", submission_id |-> "s3"],
                  [id |-> "q4", submission_id |-> "s2"]}
  /\ answers = [q \in {"q1", "q2", "q4"} |-> Answers["q1"]]
  /\ judgeRows = {[id |-> j, user_id |-> JudgeOwner[j]] : j \in Judges}
  /\ workspace_judge_selections =
       {[judge_id |-> j, workspace_id |-> "w1"] : j \in {"j1", "j2"}}
  /\ pending = None
  /\ listed = None
  /\ runs = <<>>
  /\ tabs = <<>>
  /\ upload = None
  /\ judge_assignments \in
       {{}, {Assignment("j1", q) : q \in {"q1", "q2"}}}
  /\ evaluations = {}
  /\ \E displayed \in getQuestionsByWorkspace("w1") :
       assignStep = LoadedAssignStep("w1", "u1", displayed)

MatrixNext ==
  \E c \in ToggleCalls :
    \/ \E j \in Judges, q \in AssignQuestions : ToggleStart(c, j, q)
    \/ ToggleQuery(c)
    \/ ToggleResume(c)

MatrixSpec == MatrixInit /\ [][MatrixNext]_vars

\* The same page when the user waits for every call to finish before the next
\* click.
OneAtATime == \A c \in ToggleCalls : assignStep.calls[c].step = "idle"

SequentialMatrixNext ==
  \E c \in ToggleCalls :
    \/ \E j \in Judges, q \in AssignQuestions : OneAtATime /\ ToggleStart(c, j, q)
    \/ ToggleQuery(c)
    \/ ToggleResume(c)

SequentialMatrixSpec == MatrixInit /\ [][SequentialMatrixNext]_vars

(***************************************************************************)
(* Properties.                                                             *)
(***************************************************************************)
QuestionsOfWorkspace(w) ==
  {q \in Questions : SubmissionWorkspace[QuestionSubmission[q]] = w}

RowsOf(evals, a) ==
  {e \in evals : e.question_id = a.question_id /\ e.judge_id = a.judge_id}

\* The assignment that the last evaluateAssignment result is about.
EvaluatedAssignment == Assignment(evalOutcome.result.judgeId, evalOutcome.result.questionId)

SuccessReturned == pc = "returned" /\ httpResponse.status = 200

\* C1: when a batch run has returned a success response, every evaluation row
\* of a question of the workspace belongs to a pair of judge_assignments.
C1_NoStaleEvaluationAfterRun ==
  SuccessReturned =>
    \A e \in evaluations :
      e.question_id \in QuestionsOfWorkspace(request.workspaceId)
        => Assignment(e.judge_id, e.question_id) \in judge_assignments

\* C2: the evaluations table holds at most one row per (question, judge) pair,
\* and a save for a pair that already has a row leaves that one row, carrying
\* the verdict and reasoning just saved.
C2_OneRowPerPair ==
  /\ \A e1, e2 \in evaluations :
       (e1.question_id = e2.question_id /\ e1.judge_id = e2.judge_id) => e1 = e2
  /\ (pc = "loop" /\ evalOutcome.kind = "return" /\ conflict) =>
       \E e \in evaluations :
         /\ RowsOf(evaluations, EvaluatedAssignment) = {e}
         /\ e.verdict = evalOutcome.result.verdict
         /\ e.reasoning =
              IF evalOutcome.result.success
                THEN (IF callOutcome.reasoning = "" THEN NULL ELSE callOutcome.reasoning)
                ELSE "Error: " \o evalOutcome.result.error

\* A pair that had a row with another verdict was evaluated again and its row
\* was overwritten by the fallback save.
C2_Witness ==
  /\ pc = "loop"
  /\ evalOutcome.kind = "return"
  /\ conflict
  /\ ~evalOutcome.result.success
  /\ \E e \in RowsOf(evaluations, EvaluatedAssignment) : e.verdict = "inconclusive"
  /\ Cardinality(RowsOf(evaluations, EvaluatedAssignment)) = 1
  /\ Cardinality(evaluations) >= 2

C4_ErrorRowAlwaysPersisted ==
  (pc = "loop" /\ evalOutcome.kind = "return" /\ callOutcome.kind = "throw") =>
    /\ evalOutcome.result =
         EvaluationResult(assignments[1], "inconclusive", FALSE, callOutcome.message)
    /\ \E e \in RowsOf(evaluations, assignments[1]) :
         /\ e.verdict = "inconclusive"
         /\ e.reasoning = "Error: " \o callOutcome.message

\* C4, amended: when the model call threw, evaluateAssignment returns
\* {inconclusive, success: false, error: message}, and the fallback save either
\* leaves the row of the pair with verdict inconclusive and reasoning
\* "Error: <message>" or, when it fails, leaves the evaluations table as it was.
C4_ErrorRowPersistedUnlessSaveFails ==
  [][(pc = "fallbackSave" /\ callOutcome.kind = "throw") =>
       /\ pc' = "loop"
       /\ evalOutcome'.kind = "return"
       /\ evalOutcome'.result =
            EvaluationResult(assignments[1], "inconclusive", FALSE, callOutcome.message)
       /\ \/ evaluations' = evaluations
          \/ \E e \in evaluations' :
               /\ RowsOf(evaluations', assignments[1]) = {e}
               /\ e.verdict = "inconclusive"
               /\ e.reasoning = "Error: " \o callOutcome.message]_vars

\* The model call timed out and the fallback save stored the error row.
C4_Witness ==
  /\ pc = "loop"
  /\ evalOutcome.kind = "return"
  /\ callOutcome = TimeoutError(callJudge)
  /\ evalOutcome.result.error = callOutcome.message
  /\ \E e \in RowsOf(evaluations, EvaluatedAssignment) :
       e.verdict = "inconclusive" /\ e.reasoning = "Error: " \o callOutcome.message

\* The (question, judge) pairs of the resolved assignments among the first k.
ResolvedPairs(k) ==
  LET sel == SelectSeq(SubSeq(assignments, 1, k), Resolved) IN
    [i \in 1..Len(sel) |-> <<sel[i].question_id, sel[i].judge_id>>]

ResultPairs(rs) == [i \in 1..Len(rs) |-> <<rs[i].questionId, rs[i].judgeId>>]

\* C5: once the loop is reached the run ends in a success response; the results
\* hold one entry per resolved assignment, in assignment order, whatever the
\* outcome of each evaluation.
C5_LoopNeverAborts ==
  /\ pc \in {"fetch", "text", "json", "callReturn", "saveEvaluation", "fallbackSave"} =>
       ResultPairs(results) = ResolvedPairs(processedCount - 1)
  /\ pc = "loop" => ResultPairs(results) = ResolvedPairs(processedCount)
  /\ (pc = "returned" /\ processedCount > 0) =>
       /\ httpResponse.status = 200
       /\ httpResponse.body.results = results
       /\ ResultPairs(results) = ResolvedPairs(Len(assignments))
       /\ \A i \in 1..Len(results) :
            results[i].success <=> results[i].error = UNDEF

\* A run over three assignments, one of them skipped, whose first evaluation
\* failed and whose second succeeded.
C5_Witness ==
  /\ SuccessReturned
  /\ Len(assignments) = 3
  /\ Len(results) = 2
  /\ ~results[1].success
  /\ results[2].success

\* The first response is the rejection { code: unsupported_value, param: temperature }.
TemperatureRejected(resp) ==
  /\ resp # None
  /\ ~resp.ok
  /\ ParseErrorText(resp.errorText).code = "unsupported_value"
  /\ ParseErrorText(resp.errorText).param = "temperature"

\* C6: when the body of the first response says code unsupported_value and
\* param temperature, exactly one further request is sent, without the
\* temperature field; a second request is sent only as such a retry; when the
\* retry is answered with content, the validated content is returned; no call
\* sends more than two requests.
C6_TemperatureRetry ==
  /\ [](Len(requests) <= 2)
  /\ []((pc = "fetch" /\ Len(requests) = 2) =>
          /\ shouldRetry(response.errorText)
          /\ requests[2] = [requests[1] EXCEPT !.temperature = FALSE])
  /\ []((pc = "callReturn" /\ Len(requests) = 2 /\ response # None /\ response.ok
            /\ content \notin {UNDEF, ""}) =>
          callOutcome = Returned(ParseContent(content)))
  /\ [][(pc = "text" /\ Len(requests) = 1 /\ TemperatureRejected(response)
            /\ callOutcome' # BodyError) =>
          /\ pc' = "fetch"
          /\ timerArmed'
          /\ requests' = Append(requests, [requests[1] EXCEPT !.temperature = FALSE])]_vars

\* The first request carried temperature, the retry did not, and the retry's
\* verdict was returned.
C6_Witness ==
  /\ pc = "callReturn"
  /\ Len(requests) = 2
  /\ requests[1].temperature
  /\ ~requests[2].temperature
  /\ response.ok
  /\ callOutcome = Returned([verdict |-> "pass", reasoning |-> "ok"])

\* The body of a response that is not ok says that the model is unknown.
IndicatesUnknownModel(resp) ==
  LET errorData == ParseErrorText(resp.errorText) IN
    /\ ~errorData.threw
    /\ \/ errorData.code = "model_not_found"
       \/ /\ errorData.message \notin {UNDEF, ""}
          /\ TextIncludes(errorData.message, "does not exist")

\* C7: a response that is not ok and is not a temperature rejection ends the
\* call without a retry, and when its body (once read) indicates an unknown
\* model the error thrown is 'Model "<model>" is not available...', for the
\* first response as for the response to the retry.
C7_UnknownModelAlwaysSpecialized ==
  /\ (pc = "fetch" /\ Len(requests) = 2) => shouldRetry(response.errorText)
  /\ (pc = "callReturn" /\ response # None /\ ~response.ok
        /\ IndicatesUnknownModel(response) /\ callOutcome # BodyError) =>
       callOutcome = Thrown(TRUE, ModelNotAvailable(callJudge))

\* C8: a request cut off by the timer ends the call with the timeout error,
\* which names the model and the two minutes, without a further request; and
\* every call that was started ends, returning or throwing.
C8_CallAlwaysEnds ==
  /\ [][(pc = "fetch" /\ timerArmed /\ pc' = "callReturn" /\ callOutcome' # NetworkError) =>
          /\ callOutcome' = TimeoutError(callJudge)
          /\ requests' = requests]_vars
  /\ (pc \in {"fetch", "text", "json"}) ~> (pc = "callReturn")

\* The verdict the validator is to return for a content string.
ExpectedVerdict(c) ==
  LET parsed == JSONParse(c) IN
    IF parsed.t = "object" /\ parsed.verdict.t = "string" /\ parsed.verdict.s \in Verdicts
      THEN parsed.verdict.s
      ELSE "inconclusive"

\* C9: for every content that is not empty callOpenAI returns, and the verdict
\* is the parsed verdict when that is one of the three literals, inconclusive
\* otherwise, with the reasoning "Failed to parse LLM response as JSON" when
\* the content is not JSON; every verdict in a result or in an evaluation row is
\* one of the three literals.
C9_VerdictAlwaysValid ==
  /\ (pc = "callReturn" /\ content \notin {UNDEF, ""}) =>
       /\ callOutcome.kind = "return"
       /\ callOutcome.verdict = ExpectedVerdict(content)
       /\ JSONParse(content) = SyntaxError =>
            callOutcome = Returned([verdict |-> "inconclusive",
                                    reasoning |-> FAILED_TO_PARSE])
  /\ \A e \in evaluations : e.verdict \in Verdicts
  /\ evalOutcome.kind = "return" => evalOutcome.result.verdict \in Verdicts
  /\ \A i \in 1..Len(results) : results[i].verdict \in Verdicts

\* A verdict that is a string but none of the three literals was returned as
\* inconclusive, and saved so.
C9_Witness ==
  /\ pc = "loop"
  /\ content = C_UPPERCASE
  /\ callOutcome.verdict = "inconclusive"
  /\ evalOutcome.kind = "return"
  /\ evalOutcome.result.success
  /\ \E e \in RowsOf(evaluations, EvaluatedAssignment) : e.verdict = "inconclusive"

\* The reasoning of a parsed value: the string it holds, else the empty string.
ExpectedReasoning(c) ==
  LET parsed == JSONParse(c) IN
    IF parsed.t = "object" /\ parsed.reasoning.t = "string"
      THEN parsed.reasoning.s
      ELSE ""

\* C10: whenever the content is valid JSON the reasoning returned is the parsed
\* reasoning, or the empty string when there is none; it is "Failed to parse
\* LLM response as JSON" only for a content that is not JSON.
C10_ReasoningOfValidJson ==
  (pc = "callReturn" /\ content \notin {UNDEF, ""} /\ JSONParse(content) # SyntaxError) =>
    /\ callOutcome.kind = "return"
    /\ callOutcome.reasoning = ExpectedReasoning(content)
    /\ callOutcome.reasoning # FAILED_TO_PARSE

\* The responses of a run in which a database call of the handler failed.
DbFailureResponses == {errorResponse(ErrorMessage(e), 500) : e \in DbErrors}

\* The request of the run names a workspace and a user, and the credential is set.
ValidRequest ==
  /\ OPENAI_SECRET_KEY
  /\ request # None
  /\ request.workspaceId # UNDEF
  /\ request.userId # UNDEF

AssignmentsOfWorkspace(w) ==
  {a \in judge_assignments : a.question_id \in QuestionsOfWorkspace(w)}

\* No model request was sent by the run.
NoModelCall == callJudge = UNDEF /\ requests = <<>> /\ callOutcome = None

\* C11: a run on a workspace with submissions and questions and without any
\* judge assignment, whose database reads succeed, returns status 200 with
\* {success: true, processed: 0, passed: 0, failed: 0, inconclusive: 0,
\* results: []} and sends no model request.
C11_ZeroAssignments ==
  (/\ pc = "returned"
   /\ ValidRequest
   /\ QuestionsOfWorkspace(request.workspaceId) # {}
   /\ AssignmentsOfWorkspace(request.workspaceId) = {}
   /\ httpResponse \notin DbFailureResponses) =>
    /\ httpResponse =
         [status |-> 200,
          body |-> [results |-> <<>>, success |-> TRUE, processed |-> 0, passed |-> 0,
                    failed |-> 0, inconclusive |-> 0]]
    /\ NoModelCall

\* A run on w1, which has a question, while nothing is assigned.
C11_Witness ==
  /\ pc = "returned"
  /\ ValidRequest
  /\ request.workspaceId = "w1"
  /\ AssignmentsOfWorkspace("w1") = {}
  /\ questionIds = {"q1"}
  /\ httpResponse.status = 200
  /\ httpResponse.body.processed = 0

\* An {error: message} response with a status outside 200..299.
IsErrorResponse(resp) ==
  /\ resp # None
  /\ resp.status \notin 200..299
  /\ DOMAIN resp.body = {"error"}

\* C12: a run on a workspace without submissions, or whose submissions hold no
\* question, ends in an error response with a status outside 2xx; during the
\* whole run no model request is sent and the evaluations table is not changed
\* (the run never gets beyond the first two reads).
C12_NoSubmissionsOrQuestionsFails ==
  /\ []((pc = "returned" /\ ValidRequest /\ QuestionsOfWorkspace(request.workspaceId) = {})
          => (IsErrorResponse(httpResponse) /\ NoModelCall))
  /\ [][(ValidRequest' /\ QuestionsOfWorkspace(request'.workspaceId) = {}) =>
          /\ evaluations' = evaluations
          /\ pc' \in {"getSubmissions", "getQuestions", "returned"}
          /\ NoModelCall']_vars

\* A run on w2, whose submission has no question, failed while the rows of an
\* earlier run on w1 are still there.
C12_Witness ==
  /\ pc = "returned"
  /\ ValidRequest
  /\ request.workspaceId = "w2"
  /\ submissionIds = {"s2"}
  /\ httpResponse = errorResponse("No questions found", 500)
  /\ evaluations # {}

\* The handler has not got beyond the validation of the request: its locals
\* hold no result of a read and no model request was sent.
NothingRead ==
  /\ submissionIds = {}
  /\ questionIds = {}
  /\ answerMap = <<>>
  /\ assignments = <<>>
  /\ judges = {}
  /\ idsToDelete = {}
  /\ results = <<>>
  /\ NoModelCall

\* C13: a request without workspaceId or userId, or one served while the
\* credential is not configured, is answered with {error: message} and a status
\* outside 2xx straight from the validation: the handler never is at a database
\* call or a model call for it, and the tables are left as they were.
C13_InvalidRequestRejected ==
  /\ []((request # None /\ ~ValidRequest) =>
          /\ pc = "returned"
          /\ IsErrorResponse(httpResponse)
          /\ NothingRead)
  /\ [][(request' # None /\ ~ValidRequest') =>
          /\ pc = "idle"
          /\ pc' = "returned"
          /\ UNCHANGED dbVars]_vars
  /\ [][(request # None /\ ~ValidRequest) => (request' = None /\ UNCHANGED dbVars)]_vars

\* A request without userId was rejected with status 400 while assignments and
\* evaluations exist.
C13_Witness ==
  /\ pc = "returned"
  /\ OPENAI_SECRET_KEY
  /\ request = [workspaceId |-> "w1", userId |-> UNDEF]
  /\ httpResponse = errorResponse("Missing workspaceId or userId", 400)
  /\ judge_assignments # {}
  /\ evaluations # {}

\* The control points inside evaluateAssignment.
EvaluatePcs == {"fetch", "text", "json", "callReturn", "saveEvaluation", "fallbackSave"}

\* This step enters callOpenAI (the retry inside a call is not a new call).
CallStarts == pc' = "fetch" /\ pc \notin {"fetch", "text"}

\* The evaluation before the one that is about to start has ended: its result
\* is the last of results, and a successful one has its row in the table.
PreviousEvaluationSettled ==
  IF evalOutcome = None
    THEN results = <<>>
    ELSE /\ evalOutcome.kind = "return"
         /\ results # <<>>
         /\ results[Len(results)] = evalOutcome.result
         /\ evalOutcome.result.success =>
              \E e \in RowsOf(evaluations, EvaluatedAssignment) :
                e.verdict = evalOutcome.result.verdict

\* C14: a run works on one assignment at a time: a model request is pending
\* only inside the evaluation of the current assignment, and a model call
\* starts only from the loop, after the evaluation of the previous assignment
\* has ended with its row saved or its save failed.
C14_OneAssignmentAtATime ==
  /\ [](pc \in EvaluatePcs =>
          /\ processedCount \in 1..Len(assignments)
          /\ callJudge = CurrentAssignment.judge_id
          /\ Len(requests) \in 1..2
          /\ Len(results) < processedCount)
  /\ [](timerArmed => pc = "fetch")
  /\ [][CallStarts =>
          /\ pc = "loop"
          /\ processedCount' = processedCount + 1
          /\ PreviousEvaluationSettled]_vars

\* The call for the second assignment is pending; the first evaluation has
\* been saved.
C14_Witness ==
  /\ pc = "fetch"
  /\ timerArmed
  /\ processedCount = 2
  /\ Len(results) = 1
  /\ results[1].success
  /\ \E e \in evaluations :
       /\ e.question_id = results[1].questionId
       /\ e.judge_id = results[1].judgeId
       /\ e.verdict = results[1].verdict

\* The (question, judge) pairs of the fetched assignments whose judge is owned
\* by the user of the request.
OwnedPairs ==
  {<<assignments[i].question_id, assignments[i].judge_id>> :
     i \in {k \in 1..Len(assignments) : JudgeOwner[assignments[k].judge_id] = request.userId}}

\* C15: a run of user U sends model requests and writes evaluation rows only
\* for assignments whose judge U owns; an assignment with a judge of another
\* user is skipped and the run still succeeds, with results for exactly the
\* owned assignments; when U owns none of the assigned judges the run returns
\* the empty success response without a model request.
C15_OwnerScoped ==
  /\ [](pc \in EvaluatePcs =>
          /\ JudgeOwner[callJudge] = request.userId
          /\ JudgeOwner[CurrentAssignment.judge_id] = request.userId)
  /\ [][pc # "idle" =>
          \A e \in evaluations' \ evaluations :
            /\ JudgeOwner[e.judge_id] = request.userId
            /\ Assignment(e.judge_id, e.question_id) = CurrentAssignment]_vars
  /\ []((pc = "returned" /\ processedCount > 0) =>
          /\ httpResponse.status = 200
          /\ {ResultPairs(results)[i] : i \in 1..Len(results)} = OwnedPairs
          /\ Len(results) = Cardinality(OwnedPairs))
  /\ []((pc = "returned" /\ ValidRequest /\ assignments # <<>> /\ OwnedPairs = {}
            /\ httpResponse \notin DbFailureResponses) =>
          /\ httpResponse = successResponse(<<>>)
          /\ NoModelCall)

\* A run of u2 over three assignments evaluated the one of j3, the judge u2
\* owns, and skipped the two of u1's judges.
C15_Witness ==
  /\ pc = "returned"
  /\ request.userId = "u2"
  /\ Len(assignments) = 3
  /\ httpResponse.status = 200
  /\ Len(results) = 1
  /\ results[1].judgeId = "j3"

\* C16: a question without an answer row is evaluated like any other, and the
\* answer handed to the prompt builder for it is null, which the prompt shows
\* as the JSON text null.
C16_MissingAnswerIsNull ==
  /\ (pc = "getAssignments" /\ questionIds \cap DOMAIN answers = {}) => answerMap = <<>>
  /\ (pc \in EvaluatePcs /\ CurrentAssignment.question_id \notin DOMAIN answers) =>
       /\ QuestionAnswer(CurrentAssignment.question_id) = NULL
       /\ \A i \in 1..Len(requests) : requests[i].messages[2].content = "Answer JSON:\nnull"

\* The number of entries of rs with verdict v, counted entry by entry.
RECURSIVE Tally(_, _)
Tally(rs, v) ==
  IF rs = <<>> THEN 0
  ELSE (IF Head(rs).verdict = v THEN 1 ELSE 0) + Tally(Tail(rs), v)

\* C17: in every success response processed is the length of results and the
\* sum of passed, failed and inconclusive, each of which is the number of
\* results with that verdict; results holds the evaluated assignments only, so
\* a skipped assignment is counted nowhere.
C17_SummaryCounts ==
  SuccessReturned =>
    LET body == httpResponse.body IN
      /\ body.success
      /\ body.results = results
      /\ body.processed = Len(body.results)
      /\ body.processed = body.passed + body.failed + body.inconclusive
      /\ body.passed = Tally(body.results, "pass")
      /\ body.failed = Tally(body.results, "fail")
      /\ body.inconclusive = Tally(body.results, "inconclusive")
      /\ body.processed = Len(SelectSeq(assignments, Resolved))

\* Three assignments, one skipped: one result passed, one is inconclusive.
C17_Witness ==
  /\ SuccessReturned
  /\ Len(assignments) = 3
  /\ httpResponse.body.processed = 2
  /\ httpResponse.body.passed = 1
  /\ httpResponse.body.failed = 0
  /\ httpResponse.body.inconclusive = 1

\* C18: a workspace row that appears is temporary; a row turns from temporary
\* to saved only in the update of updateWorkspaceName; a saved row never turns
\* temporary; deleteTemporaryWorkspaces removes no saved row; and what
\* getAllUserWorkspaces returned holds saved workspaces of that user only.
C18_WorkspaceLifecycle ==
  /\ [][\A w \in workspaces' : w.id \notin Ids(workspaces) => w.temporary]_vars
  /\ [][\A w \in workspaces : \A w2 \in workspaces' :
          (w2.id = w.id /\ w.temporary /\ ~w2.temporary) =>
            /\ pending # None
            /\ pending.op = "updateWorkspaceName"
            /\ pending.id = w.id
            /\ pending' = None]_vars
  /\ [][\A w \in workspaces : \A w2 \in workspaces' :
          (w2.id = w.id /\ ~w.temporary) => ~w2.temporary]_vars
  /\ [][\A u \in Users :
          deleteTemporaryWorkspaces(u) =>
            \A w \in workspaces : (~w.temporary \/ w.user_id # u) => w \in workspaces']_vars
  /\ [](listed # None =>
          \A w \in listed.rows : ~w.temporary /\ w.user_id = listed.user_id)

\* u1 saved w1 and then started another workspace: the list u1 got holds w1,
\* saved, and not the temporary one.
C18_Witness ==
  /\ listed # None
  /\ listed.user_id = "u1"
  /\ listed.rows = {[id |-> "w1", user_id |-> "u1", temporary |-> FALSE]}
  /\ listed.rows \subseteq workspaces
  /\ \E w \in workspaces : w.user_id = "u1" /\ w.temporary

\* Every foreign key of the schema points at a row that exists.
ReferentialIntegrity ==
  /\ \A x \in submissions : x.workspace_id \in Ids(workspaces)
  /\ \A q \in questions : q.submission_id \in Ids(submissions)
  /\ DOMAIN answers \subseteq Ids(questions)
  /\ \A x \in workspace_judge_selections :
       x.workspace_id \in Ids(workspaces) /\ x.judge_id \in Ids(judgeRows)
  /\ \A a \in judge_assignments :
       a.judge_id \in Ids(judgeRows) /\ a.question_id \in Ids(questions)
  /\ \A e \in evaluations :
       /\ e.submission_id \in Ids(submissions)
       /\ e.question_id \in Ids(questions)
       /\ e.judge_id \in Ids(judgeRows)

\* After the step nothing is left of workspace wid; sids and qids are the
\* submissions and questions it had before the step.
NothingLeftOf(wid, sids, qids) ==
  /\ Ids(submissions') \cap sids = {}
  /\ \A x \in submissions' : x.workspace_id # wid
  /\ Ids(questions') \cap qids = {}
  /\ DOMAIN answers' \cap qids = {}
  /\ \A a \in judge_assignments' : a.question_id \notin qids
  /\ \A e \in evaluations' : e.question_id \notin qids /\ e.submission_id \notin sids
  /\ \A x \in workspace_judge_selections' : x.workspace_id # wid

StaleRows(evals, qids, current) ==
  {e \in evals :
     /\ e.question_id \in qids
     /\ \A i \in 1..Len(current) :
          current[i].question_id # e.question_id \/ current[i].judge_id # e.judge_id}

DeleteOldPcs == {"deleteOldEvaluations", "deleteOldEvaluationsDelete"}

\* C20: deleteOldEvaluations(questionIds, assignments) that completes leaves the
\* evaluations table without exactly the rows whose question is in questionIds
\* and whose pair is not in assignments, every other row as it was; while it
\* runs no model call has been made and no result produced in the run; it is
\* entered from step 5 only, never later in the run; and every other write to evaluations
\* is a save of evaluateAssignment, after a model call.
C20_DeleteOldEvaluations ==
  /\ [][(pc \in DeleteOldPcs /\ pc' = "loop") =>
          /\ evaluations' = evaluations \ StaleRows(evaluations, questionIds, assignments)
          /\ StaleRows(evaluations', questionIds, assignments) = {}]_vars
  /\ [][(pc \in DeleteOldPcs /\ pc' # "loop") => evaluations' = evaluations]_vars
  /\ [](pc \in DeleteOldPcs =>
          NoModelCall /\ results = <<>> /\ processedCount = 0 /\ evalOutcome = None)
  /\ [][pc' \in DeleteOldPcs => pc \in DeleteOldPcs \cup {"getJudges"}]_vars
  /\ [][(evaluations' # evaluations /\ pc \notin DeleteOldPcs) =>
          pc \in {"saveEvaluation", "fallbackSave"} /\ requests # <<>>]_vars

\* The delete has removed rows of q1; the row of an assigned pair, the row of
\* q2 of the other workspace are still there, and no call was made yet.
C20_Witness ==
  /\ pc = "loop"
  /\ processedCount = 0
  /\ NoModelCall
  /\ idsToDelete # {}
  /\ questionIds = {"q1"}
  /\ \E e \in evaluations : e.question_id = "q2"
  /\ \E e \in evaluations : e.question_id = "q1"
  /\ \A e \in evaluations :
       e.question_id = "q1" => Assignment(e.judge_id, "q1") \in judge_assignments

\* As C20_Witness, with q2 a question of the workspace: its row was removed.
C20_WitnessSameWorkspace ==
  /\ pc = "loop"
  /\ processedCount = 0
  /\ questionIds = {"q1", "q2"}
  /\ <<"q2", "j1", 1>> \in idsToDelete
  /\ evaluations # {}
  /\ \A e \in evaluations : e.question_id = "q1"

\* The lower-cased model identifier of judge j contains no denylisted substring.
NotDenylisted(j) ==
  \A m \in modelsWithoutTemperature : ~Includes(ToLowerCase(JudgeModel[j]), m)

\* The two messages of a request of judge j for the answer payload a.
ExpectedMessages(j, a) ==
  <<[content |-> JudgeSystemPrompt[j], role |-> "system"],
    [content |-> buildTypeSpecificPrompt(a), role |-> "user"]>>

\* C21: the first request of a callOpenAI invocation has the temperature field
\* exactly when the lower-cased model identifier contains none of the
\* denylisted substrings; every request, the retry too, names the judge's
\* model, carries the judge's system prompt and the built user prompt as its
\* two messages and asks for json_object output.
C21_RequestShape ==
  /\ [][\A j \in Judges, a \in AnswerPayloads :
          Invoke(j, a) =>
            /\ Len(requests') = 1
            /\ requests'[1].temperature <=> NotDenylisted(j)
            /\ requests'[1].messages = ExpectedMessages(j, a)]_vars
  /\ [](\A i \in 1..Len(requests) :
          /\ requests[i].model = JudgeModelName[callJudge]
          /\ Len(requests[i].messages) = 2
          /\ requests[i].messages[1] = [content |-> JudgeSystemPrompt[callJudge], role |-> "system"]
          /\ requests[i].messages[2].role = "user"
          /\ requests[i].messages[2].content = requests[1].messages[2].content
          /\ requests[i].response_format = [type |-> "json_object"])
  /\ []((requests # <<>>) => (requests[1].temperature <=> NotDenylisted(callJudge)))

\* The judge with the model GPT-5-Mini was called: the request has no
\* temperature field.
C21_Witness ==
  /\ pc = "fetch"
  /\ callJudge = "j2"
  /\ Len(requests) = 1
  /\ ~requests[1].temperature
  /\ requests[1].messages[1].content = "Be lenient."

\* C22: the delete of deleteJudge, reached by the owner of the judge, removes
\* the judge and every judge_assignments row of the judge, and leaves the
\* evaluations table as it is, the rows of the deleted judge included.
C22_DeleteJudgeKeepsEvaluations ==
  [][deleteJudgeDelete =>
       /\ pending.id \notin Ids(judgeRows')
       /\ judgeRows' = {j \in judgeRows : j.id # pending.id}
       /\ judge_assignments' = {a \in judge_assignments : a.judge_id # pending.id}
       /\ evaluations' = evaluations]_vars

\* The questions of the workspace of each question with the same text up to
\* surrounding blanks and letter case: " Sum?" and "sum? " in w1, "sum" in w1,
\* "SUM?" in w2.
SameTextGroup == [q1 |-> {"q1", "q2"}, q2 |-> {"q1", "q2"}, q3 |-> {"q3"}, q4 |-> {"q4"}]

\* C23: assignJudgeToQuestion(j, q) adds the pair of j with every question of
\* the group of q and changes nothing else, whether or not some of the pairs
\* are stored already; unassignJudgeFromQuestion(j, q) removes exactly these
\* pairs, so that after it j has no pair with a question of the group.
C23_AssignBySameText ==
  /\ [][\A j \in Judges, q \in AssignQuestions :
          assignJudgeToQuestion(j, q) =>
            judge_assignments' =
              judge_assignments \cup {Assignment(j, x) : x \in SameTextGroup[q]}]_vars
  /\ [][\A j \in Judges, q \in AssignQuestions :
          unassignJudgeFromQuestion(j, q) =>
            /\ judge_assignments' =
                 judge_assignments \ {Assignment(j, x) : x \in SameTextGroup[q]}
            /\ \A x \in SameTextGroup[q] : Assignment(j, x) \notin judge_assignments']_vars

\* j1, assigned to q1 before q2 existed, was assigned through q2: it is now
\* assigned to both and to no other question, next to a judge assigned to q3.
C23_Witness ==
  /\ {a \in judge_assignments : a.judge_id = "j1"} =
       {Assignment("j1", "q1"), Assignment("j1", "q2")}
  /\ Assignment("j2", "q3") \in judge_assignments
  /\ Assignment("j3", "q4") \in judge_assignments

\* The pairs of the resolvable assignments among the first k of invocation r.
RunResolvedPairs(r, k) ==
  LET a == runs[r].assignments
      idx == {i \in 1..k : RunResolved(r, a[i])}
      nth(n) == CHOOSE i \in idx : Cardinality({j \in idx : j < i}) = n - 1
  IN [n \in 1..Cardinality(idx) |-> <<a[nth(n)].question_id, a[nth(n)].judge_id>>]

\* C24: however two invocations for the same workspace are interleaved, the
\* evaluations table holds at most one row per (question, judge) pair; each
\* invocation has one result per resolvable assignment it has processed, in
\* order; and each ends with a success response that lists them.
C24_InterleavedRuns ==
  /\ \A e1, e2 \in evaluations :
       (e1.question_id = e2.question_id /\ e1.judge_id = e2.judge_id) => e1 = e2
  /\ \A r \in DOMAIN runs :
       /\ runs[r].pc = "loop" =>
            ResultPairs(runs[r].results) = RunResolvedPairs(r, runs[r].processedCount)
       /\ runs[r].pc = "saveEvaluation" =>
            ResultPairs(runs[r].results) = RunResolvedPairs(r, runs[r].processedCount - 1)
       /\ runs[r].pc = "returned" =>
            /\ runs[r].httpResponse.status = 200
            /\ runs[r].httpResponse.body.success
            /\ runs[r].httpResponse.body.results = runs[r].results
            /\ ResultPairs(runs[r].results) =
                 RunResolvedPairs(r, Len(runs[r].assignments))

\* Both invocations selected the same stale row for deletion, evaluated the
\* same two pairs with different verdicts, and both returned two results.
C24_Witness ==
  /\ \A r \in RunNames :
       /\ runs[r].pc = "returned"
       /\ runs[r].idsToDelete = {<<"q1", "j3", 1>>}
       /\ Len(runs[r].results) = 2
  /\ runs["A"].results[1].verdict = "pass"
  /\ runs["B"].results[1].verdict = "fail"
  /\ Cardinality(evaluations) = 2

\* C25: whenever evaluateAssignment has returned a result for a pair, the
\* evaluations table holds a row of the pair with the verdict of the result.
C25_StoredVerdictIsReturned ==
  (pc = "loop" /\ evalOutcome # None /\ evalOutcome.kind = "return") =>
    \E e \in RowsOf(evaluations, EvaluatedAssignment) :
      e.verdict = evalOutcome.result.verdict

\* C25, amended: a result with success true is returned only after its verdict
\* was stored in the row of the pair; a result with success false is
\* inconclusive, and the step that returns it either stores inconclusive in the
\* row of the pair or, when the fallback save fails, leaves the evaluations
\* table as it was, with the older row of the pair or none.
C25_StoredVerdictUnlessFallbackFails ==
  [][(pc \in {"saveEvaluation", "fallbackSave"} /\ pc' = "loop"
        /\ evalOutcome'.kind = "return") =>
       LET r == evalOutcome'.result
           rows == RowsOf(evaluations', assignments[1])
       IN /\ r.success =>
               Cardinality(rows) = 1 /\ \A e \in rows : e.verdict = r.verdict
          /\ ~r.success =>
               /\ r.verdict = "inconclusive"
               /\ \/ evaluations' = evaluations
                  \/ Cardinality(rows) = 1 /\ \A e \in rows : e.verdict = r.verdict]_vars

\* The first save and the fallback save failed while the pair had a row with
\* verdict pass from an earlier evaluation: inconclusive was returned, the row
\* still says pass.
C25_Witness ==
  /\ pc = "loop"
  /\ evalOutcome # None
  /\ evalOutcome.kind = "return"
  /\ ~evalOutcome.result.success
  /\ callOutcome.kind = "return"
  /\ \E e \in RowsOf(evaluations, EvaluatedAssignment) : e.verdict = "pass"

\* C26: every step that stores a new or changed evaluations row stores it for
\* a pair that judge_assignments holds at that moment.
C26_WrittenPairsAreAssigned ==
  [][\A e \in evaluations' \ evaluations :
       Assignment(e.judge_id, e.question_id) \in judge_assignments]_vars

\* The questions of the submissions of workspace w, by the foreign keys.
QuestionsInWorkspace(w) == QuestionsOfSubmissions(SubmissionsOfWorkspaces({w}))

\* C27: the evaluations table and the rows selected for deletion change only
\* while a request is served; a step of the run for workspace W leaves every
\* row of a question outside W as it is, selects for deletion only rows of
\* questions of W, and every row it stores or changes is of a question of W
\* and carries the submission_id of that question.
C27_RunStaysInWorkspace ==
  [][(evaluations' # evaluations \/ (idsToDelete' # idsToDelete /\ pc # "returned")) =>
       /\ request # None
       /\ LET inside == QuestionsInWorkspace(request.workspaceId) IN
            /\ {e \in evaluations' : e.question_id \notin inside} =
                 {e \in evaluations : e.question_id \notin inside}
            /\ \A e \in evaluations : e.id \in idsToDelete' => e.question_id \in inside
            /\ \A e \in evaluations' \ evaluations :
                 /\ e.question_id \in inside
                 /\ [id |-> e.question_id, submission_id |-> e.submission_id] \in questions]_vars

\* A run of u1 on w1 deleted the row of (q1, j2) and stored a row for
\* (q1, j1); the rows of q2, of which (q2, j1) has no assignment, are there.
C27_Witness ==
  /\ pc = "returned"
  /\ request.workspaceId = "w1"
  /\ httpResponse.status = 200
  /\ Len(results) = 1
  /\ idsToDelete = {<<"q1", "j2", 1>>}
  /\ judge_assignments = {Assignment("j1", "q1"), Assignment("j3", "q2")}
  /\ {<<e.question_id, e.judge_id>> : e \in evaluations} =
       {<<"q1", "j1">>, <<"q2", "j1">>, <<"q2", "j3">>}

\* C28: while a workflow is between its createTemporaryWorkspace and its Save or
\* Skip, the workspace it created exists, whenever the cleanups that the app of
\* the same user sends on load arrive.
C28_WorkspaceSurvivesCleanup ==
  \A t \in DOMAIN tabs :
    tabs[t].step \in {"importing", "workflow"} => tabs[t].workspace \in Ids(workspaces)

\* C29: when an upload into an existing workspace has failed, the workspace
\* holds the submissions, questions and answers it held before the upload; when
\* it has succeeded, the workspace holds exactly the submissions of the file.
C29_FailedImportKeepsData ==
  /\ upload.step = "failed" => WorkspaceContent(upload.workspaceId) = upload.before
  /\ upload.step = "done" =>
       /\ SubmissionsOfWorkspaces({upload.workspaceId}) = upload.imported
       /\ Cardinality(upload.imported) = Len(upload.parsedSubmissions)

\* The second half of C29 alone.
ImportedExactly ==
  upload.step = "done" =>
    /\ SubmissionsOfWorkspaces({upload.workspaceId}) = upload.imported
    /\ Cardinality(upload.imported) = Len(upload.parsedSubmissions)

\* C30: once no handleToggleAssignment call is in flight, the local set of the
\* AssignStep page holds the key of a displayed judge and question exactly when
\* the table holds the pair.
LocalMatchesTable ==
  \A j \in assignStep.judges, q \in assignStep.questions :
    AssignmentKey(j, q) \in assignStep.assignments <=> Assignment(j, q) \in judge_assignments

C30_LocalAssignmentsMatchTable ==
  (\A c \in ToggleCalls : assignStep.calls[c].step = "idle") => LocalMatchesTable

TypeOK ==
  /\ \A e \in evaluations : e.verdict \in Verdicts
  /\ timerArmed => pc = "fetch"
====
